---- MODULE Spec2Model ----
(***************************************************************************)
(* A model of PyMagic's resilience decorators (pymagic/decorator_utils.py): *)
(* the exception/retry wrappers built by Decorate.catch,                   *)
(* Decorate.catch_retry and the Decorate(obj) engine, and the thread-based *)
(* timeout guard Decorate.limit_time.                                      *)
(*                                                                         *)
(* Python values are modelled by their repr as strings ("False", "None",   *)
(* "0", "'ok'", ...); a raised exception by its class name and message.    *)
(* Time in the timeout guard is counted in ticks of 0.02 s, so that        *)
(* time.sleep(0.5) is 25 ticks and one decimal place is 5 ticks.           *)
(***************************************************************************)
EXTENDS Integers, Sequences, FiniteSets, TLC

VARIABLES
    \* ---- exception / retry wrappers
    phase,      \* "new" | "decorated" | "running": life of one wrapped operation
    deco,       \* the closure/instance state the wrapper reads
    plan,       \* behaviour of the undecorated callable, per invocation
    stack,      \* the wrapper frames of the call in progress, outermost first
    inflight,   \* the value or exception travelling up the frames
    trace,      \* invocations of the callable and time.sleep calls, in order
    logs,       \* levels of the log records emitted
    \* ---- timeout guard
    now,        \* the clock, in ticks
    guard,      \* limit_time's closure: limit_time and err_result
    gcall,      \* per guarded call: the caller's position and locals
    thread,     \* per guarded call: its MyThread object and worker
    warnings,   \* per guarded call: timeout warnings logged
    \* ---- the process-wide lock: synchronized and singleton
    lock,       \* Decorate.LOCK: the owning thread and its hold count
    tstack,     \* per thread: the wrapper frames it is in, outermost first
    instances,  \* per singleton wrapper: its `instances` dict
    constructed,\* per singleton wrapper: constructor calls completed
    last,       \* the wrapper invocation that ended last: hold count, outcome
    \* ---- Response, the outcome record
    resp,       \* the fields of the Response object
    rhist,      \* how resp came about: its origin, the last operation on it
                \* and the fields before that operation
    rescaped,   \* what the last Response.execute raised to its caller
    rcmp,       \* the comparison and truth test of the Response object, when
                \* that was the last thing done with it
    \* ---- enumerating and rebinding the members of a target
    target,     \* the class or instance handed to the enumerators / the engine
    listing,    \* the last enumerator call and the list it returned
    rebound,    \* per member name: wrapper layers bound on the target
    wrapout,    \* the applications of the engine's wrap and how the last ended
    \* ---- extract_exception_location
    located,    \* the last call: the exception's traceback, skip_frames, result
    \* ---- Response.metadata as an object: who refers to which dict
    dicts,      \* the dict objects there are, by identity, and their contents
    callermap,  \* the dict a caller built to hand to Response(metadata=...)
    owned       \* per Response object: the dict its metadata attribute is

retryVars == <<phase, deco, plan, stack, inflight, trace, logs>>
guardVars == <<now, guard, gcall, thread, warnings>>
lockVars == <<lock, tstack, instances, constructed, last>>
outcomeVars == <<resp, rhist, rescaped, rcmp>>
wrapVars == <<target, listing, rebound, wrapout>>
locateVars == <<located>>
metaVars == <<dicts, callermap, owned>>
vars == <<phase, deco, plan, stack, inflight, trace, logs,
          now, guard, gcall, thread, warnings,
          lock, tstack, instances, constructed, last,
          resp, rhist, rescaped, rcmp,
          target, listing, rebound, wrapout,
          located,
          dicts, callermap, owned>>

\* What the actions of one subsystem leave alone.
notRetryVars == <<guardVars, lockVars, outcomeVars, wrapVars, locateVars, metaVars>>
notGuardVars == <<retryVars, lockVars, outcomeVars, wrapVars, locateVars, metaVars>>
notLockVars == <<retryVars, guardVars, outcomeVars, wrapVars, locateVars, metaVars>>
notOutcomeVars == <<retryVars, guardVars, lockVars, wrapVars, locateVars, metaVars>>
notWrapVars == <<retryVars, guardVars, lockVars, outcomeVars, locateVars, metaVars>>
notLocateVars == <<retryVars, guardVars, lockVars, outcomeVars, wrapVars, metaVars>>
notMetaVars == <<retryVars, guardVars, lockVars, outcomeVars, wrapVars, locateVars>>

(***************************************************************************)
(* Bounds of the model.                                                    *)
(***************************************************************************)
MaxRetry == 3
MaxPlan == 3
MaxLayers == 2
\* Cap on invocations of the callable in one call (retry-forever mode).
MaxCalls == MaxRetry + 1

(***************************************************************************)
(* Python values and exceptions.                                           *)
(***************************************************************************)
\* The marker of an argument that was not passed.
Unset == "<unset>"
\* The decorated function object itself (a callable value).
FuncObject == "<function>"
\* Decorate.DEFAULT_VALUE and the default of result= / err_return=.
DEFAULT_VALUE == "False"

Callable(v) == v = FuncObject

\* Python's `a == b` on the values modelled: False, 0 and 0.0 are equal.
PyEq(a, b) == a = b \/ {a, b} \subseteq {"False", "0", "0.0"}

\* Python truthiness of a value, as `if info:` tests it.
Truthy(v) == v \notin {"None", "False", "0", "0.0", "''"}

\* The built-in exception classes modelled: those derived from Exception
\* directly, and those derived from BaseException only.
ExceptionSubclasses ==
    {"ValueError", "TypeError", "AttributeError", "RuntimeError", "NameError",
     "OSError", "LookupError", "ArithmeticError", "AssertionError"}
BaseOnlyClasses == {"KeyboardInterrupt", "SystemExit", "GeneratorExit"}

\* The classes an exception of class `kind` is an instance of; a value that
\* is no exception of these classes is an instance of none of them.
Mro(kind) ==
    CASE kind \in ExceptionSubclasses -> {kind, "Exception", "BaseException"}
      [] kind = "Exception" -> {"Exception", "BaseException"}
      [] kind \in BaseOnlyClasses -> {kind, "BaseException"}
      [] kind = "BaseException" -> {"BaseException"}
      [] OTHER -> {}

\* Mutant: a bare `except:` that catches everything.
ExceptMatches_Bare(kind, cls) == TRUE

\* `except cls as e` catches an exception of class `kind`.
ExceptMatches(kind, cls) == cls \in Mro(kind)

NoOutcome == [t |-> "none", v |-> "", kind |-> "", msg |-> "", via |-> ""]
Returned(v, via) == [t |-> "ret", v |-> v, kind |-> "", msg |-> "", via |-> via]
Raised(kind, msg) == [t |-> "raise", v |-> "", kind |-> kind, msg |-> msg, via |-> "func"]

\* What an invocation of the undecorated callable can do.
FuncOutcomes ==
    { Returned("'ok'", "func"),
      Returned("False", "func"),
      Raised("ValueError", "m1"),
      Raised("TypeError", "m2"),
      Raised("KeyboardInterrupt", "m3") }

RECURSIVE SeqsUpTo(_, _)
SeqsUpTo(S, n) ==
    IF n = 0 THEN { <<>> }
    ELSE LET shorter == SeqsUpTo(S, n - 1)
         IN  shorter \cup { Append(s, x) : s \in { q \in shorter : Len(q) = n - 1 }, x \in S }

\* A plan lists the callable's outcome per invocation; its last entry repeats.
Plans == SeqsUpTo(FuncOutcomes, MaxPlan) \ { <<>> }

PlanAt(p, i) == IF i <= Len(p) THEN p[i] ELSE p[Len(p)]

CallEvent == [op |-> "call", d |-> 0]
SleepEvent(d) == [op |-> "sleep", d |-> d]

RECURSIVE CountOp(_, _)
CountOp(tr, op) ==
    IF tr = <<>> THEN 0
    ELSE (IF tr[Len(tr)].op = op THEN 1 ELSE 0) + CountOp(SubSeq(tr, 1, Len(tr) - 1), op)

Calls == CountOp(trace, "call")
Sleeps == CountOp(trace, "sleep")

(***************************************************************************)
(* print_log: the level a record is logged at.                             *)
(***************************************************************************)
NoLevel == "None"

\* The level names a caller may write, each as <<lower(), as capitalised,
\* upper()>>: str.lower() and str.upper() are tabulated on these spellings.
LevelSpellings ==
    { <<"trace", "Trace", "TRACE">>, <<"debug", "Debug", "DEBUG">>,
      <<"info", "Info", "INFO">>, <<"success", "Success", "SUCCESS">>,
      <<"warning", "Warning", "WARNING">>, <<"warn", "Warn", "WARN">>,
      <<"error", "Error", "ERROR">>, <<"critical", "Critical", "CRITICAL">>,
      <<"exception", "Exception", "EXCEPTION">> }

SpellingOf(level) ==
    CHOOSE s \in LevelSpellings : level \in {s[1], s[2], s[3]}

\* level.lower() and level.upper(), for the spellings above.
Lower(level) == SpellingOf(level)[1]
Upper(level) == SpellingOf(level)[3]

\* print_log(log_msg, level=None, *args, **kwargs):
\*   if not level or level.lower() == "exception": level = "error"
\*   level = level.upper()
print_log(level) ==
    IF level = NoLevel \/ level = "" THEN Upper("error")
    ELSE IF Lower(level) = "exception" THEN Upper("error")
    ELSE Upper(level)

(***************************************************************************)
(* Keyword arguments: a function from the names given to their values.     *)
(***************************************************************************)
Get(d, key, default) == IF key \in DOMAIN d THEN d[key] ELSE default

KwargValues(key) ==
    CASE key = "retry_num" -> (-1) .. MaxRetry
      [] key = "sleep_time" -> {1}
      [] key = "backoff_factor" -> {2}

\* The **d_kwargs a caller of Decorate.catch_retry may pass.
RetryKwargs ==
    { d \in UNION { [K -> (-1) .. MaxRetry] :
                    K \in SUBSET {"retry_num", "sleep_time", "backoff_factor"} } :
        \A k \in DOMAIN d : d[k] \in KwargValues(k) }

NoKwargs == CHOOSE d \in RetryKwargs : DOMAIN d = {}

(***************************************************************************)
(* Building a wrapper.                                                     *)
(***************************************************************************)
NoDeco ==
    [kind |-> "none", err_return |-> DEFAULT_VALUE, configured |-> FALSE,
     bare |-> FALSE, d_kwargs |-> NoKwargs, retry_num |-> 1, sleep_time |-> 3,
     flag_retry |-> FALSE, err_level |-> "exception", exception |-> "Exception",
     layers |-> 0, members |-> 0, named |-> TRUE]

\* The callable that gets wrapped has a __name__ (a function, a method) or
\* has none (a functools.partial object, an instance with __call__).
WithName(d, named) == [d EXCEPT !.named = named]

\* Decorate.catch(result=False, err_info="", err_level="exception",
\*                exception=Exception): the closure of decorator/_wrapper.
\* A callable `result` with no other keyword is taken for the function to wrap.
CatchClosure(result, err_level, exception) ==
    [NoDeco EXCEPT
        !.kind = "catch",
        !.err_return = IF result = Unset THEN DEFAULT_VALUE ELSE result,
        !.bare = Callable(result),
        !.configured = result # Unset /\ ~Callable(result),
        !.err_level = err_level,
        !.exception = exception,
        !.layers = 1]

DecorateCatch ==
    /\ phase = "new"
    /\ \E result \in {Unset, "'fb'", FuncObject},
          err_level \in {"exception", "warning"},
          exception \in {"Exception", "ValueError"}, named \in BOOLEAN :
            deco' = WithName(CatchClosure(result, err_level, exception), named)
    /\ phase' = "decorated"
    /\ UNCHANGED <<plan, stack, inflight, trace, logs>>
    /\ UNCHANGED notRetryVars

\* Decorate.catch_retry(err_return=False, **d_kwargs): the closure of
\* decorator/_wrapper. A callable err_return with no keyword is taken for the
\* function to wrap.
CatchRetryClosure(err_return, d_kwargs) ==
    [NoDeco EXCEPT
        !.kind = "catch_retry",
        !.err_return = IF err_return = Unset THEN DEFAULT_VALUE ELSE err_return,
        !.bare = Callable(err_return) /\ DOMAIN d_kwargs = {},
        !.configured = err_return # Unset /\ ~Callable(err_return),
        !.d_kwargs = d_kwargs,
        !.layers = 1]

DecorateCatchRetry ==
    /\ phase = "new"
    /\ \E err_return \in {Unset, "'fb'", FuncObject}, d_kwargs \in RetryKwargs,
          named \in BOOLEAN :
          /\ Callable(err_return) => DOMAIN d_kwargs = {}
          /\ deco' = WithName(CatchRetryClosure(err_return, d_kwargs), named)
    /\ phase' = "decorated"
    /\ UNCHANGED <<plan, stack, inflight, trace, logs>>
    /\ UNCHANGED notRetryVars

\* Mutant: no retry_num turns the endless loop on.
EngineState_NoForever(err_return, retry_num, sleep_time, err_level) ==
    [NoDeco EXCEPT
        !.kind = "obj",
        !.err_return = IF err_return = Unset THEN DEFAULT_VALUE ELSE err_return,
        !.configured = err_return # Unset,
        !.retry_num = retry_num,
        !.sleep_time = sleep_time,
        !.flag_retry = FALSE,
        !.err_level = err_level,
        !.layers = 0]

\* Decorate.__init__(obj, err_return=False, retry_num=1, sleep_time=3,
\*                   err_level="exception")
EngineState(err_return, retry_num, sleep_time, err_level) ==
    [NoDeco EXCEPT
        !.kind = "obj",
        !.err_return = IF err_return = Unset THEN DEFAULT_VALUE ELSE err_return,
        !.configured = err_return # Unset,
        !.retry_num = retry_num,
        !.sleep_time = sleep_time,
        !.flag_retry = retry_num < 1,
        !.err_level = err_level,
        !.layers = 0]

EngineInit ==
    /\ phase = "new"
    /\ \E err_return \in {Unset, "'fb'"}, retry_num \in (-1) .. MaxRetry,
          sleep_time \in {1, 3}, named \in BOOLEAN :
            deco' = WithName(EngineState(err_return, retry_num, sleep_time,
                                         "exception"), named)
    /\ phase' = "decorated"
    /\ UNCHANGED <<plan, stack, inflight, trace, logs>>
    /\ UNCHANGED notRetryVars

\* Decorate.catch_class(cls): for every entry of class_func_list(cls) the
\* callable members are wrapped once more by _catch_retry_class, which gets no
\* keyword: a class that lists n public names puts n layers on each member.
ClassClosure(n) ==
    [NoDeco EXCEPT !.kind = "class", !.members = n, !.layers = n]

CatchClass ==
    /\ \/ /\ phase = "new"
          /\ \E n \in 1 .. MaxLayers, named \in BOOLEAN :
                deco' = WithName(ClassClosure(n), named)
       \/ /\ phase = "decorated"
          /\ deco.kind = "class"
          /\ deco.layers + deco.members <= MaxLayers
          /\ deco' = [deco EXCEPT !.layers = @ + deco.members]
    /\ phase' = "decorated"
    /\ UNCHANGED <<plan, stack, inflight, trace, logs>>
    /\ UNCHANGED notRetryVars

\* Decorate.catch_retry_obj(func_name, func): one more _wrapper around the
\* member's current value.
CatchRetryObj ==
    /\ phase = "decorated"
    /\ deco.kind = "obj"
    /\ deco.layers + 1 <= MaxLayers
    /\ deco' = [deco EXCEPT !.layers = @ + 1]
    /\ UNCHANGED <<phase, plan, stack, inflight, trace, logs>>
    /\ UNCHANGED notRetryVars

\* Decorate.catch_class_obj(): the member list is walked twice, and each walk
\* wraps the member's current value.
CatchClassObj ==
    /\ phase = "decorated"
    /\ deco.kind = "obj"
    /\ deco.layers + 2 <= MaxLayers
    /\ deco' = [deco EXCEPT !.layers = @ + 2]
    /\ UNCHANGED <<phase, plan, stack, inflight, trace, logs>>
    /\ UNCHANGED notRetryVars

(***************************************************************************)
(* Calling the wrapped operation: the frames of _wrapper.                  *)
(***************************************************************************)
Top == stack[Len(stack)]
SetTop(f) == [stack EXCEPT ![Len(stack)] = f]
Pop == SubSeq(stack, 1, Len(stack) - 1)

\* The locals _wrapper starts with.
\*   catch_retry:      retry_num = d_kwargs.get("retry_num", 1)
\*   catch_retry_obj:  retry_num = self.retry_num
FrameRetryNum ==
    IF deco.kind = "catch_retry" THEN Get(deco.d_kwargs, "retry_num", 1)
    ELSE deco.retry_num

\*   catch_retry:      sleep_time = d_kwargs.get("sleep_time", 3)
\*   catch_retry_obj:  self.sleep_time
FrameSleepTime ==
    IF deco.kind = "catch_retry" THEN Get(deco.d_kwargs, "sleep_time", 3)
    ELSE deco.sleep_time

\* Mutant: only negative retry_num retries forever.
FrameFlag_Negative ==
    IF deco.kind = "catch_retry" THEN FrameRetryNum < 0 ELSE deco.retry_num < 0

\*   catch_retry:      flag = True if retry_num < 1
\*   catch_retry_obj:  self.flag_retry
FrameFlag ==
    IF deco.kind = "catch_retry" THEN FrameRetryNum < 1 ELSE deco.flag_retry

NewFrame ==
    IF deco.kind = "catch" THEN [retry_num |-> 0, pc |-> "try"]
    ELSE [retry_num |-> FrameRetryNum, pc |-> "loop"]

\* Mutant: the delay grows with every sleep.
SleepDuration_Growing(frame) == FrameSleepTime * (Sleeps + 1)

\* The duration of the next time.sleep of a frame.
SleepDuration(frame) == FrameSleepTime

\* The level of the record a wrapper logs for a caught exception.
\*   catch_retry, _catch_retry_class: logger.exception(...)
\*   catch, catch_retry_obj: print_log(msg, err_level=...), level left unset
CaughtLogLevel ==
    IF deco.kind \in {"catch_retry", "class"} THEN "ERROR" ELSE print_log(NoLevel)

\* The func of the frame on top has a __name__: under the innermost layer it
\* is the wrapped callable, above it a _wrapper function.
FuncNamed == Len(stack) < deco.layers \/ deco.named

\* What reading func.__name__ raises when func has none.
NoNameFault == Raised("AttributeError", "__name__")

\* What a _wrapper hands on when func returned or raised past its except
\* clause. _catch_retry_class:
\*   result = func(...); if result == err_return: return True else: return result
\* where the message printed before `return True` reads func.__name__; when
\* that raises, the except clause catches it and raises it again from its
\* own message.
ClassResult(o) ==
    IF deco.kind = "class" /\ o.t = "ret" /\ PyEq(o.v, deco.err_return)
    THEN IF FuncNamed THEN Returned("True", "warn") ELSE NoNameFault
    ELSE o

\* The exception class of the wrapper's except clause.
ExceptClass == IF deco.kind = "catch" THEN deco.exception ELSE "Exception"

\* The wrapped operation is called; the callable behaves as plan p.
CallWrapped ==
    /\ phase = "decorated"
    /\ deco.layers >= 1
    /\ \E p \in Plans : plan' = p
    /\ phase' = "running"
    /\ stack' = <<NewFrame>>
    /\ inflight' = NoOutcome
    /\ UNCHANGED <<deco, trace, logs>>
    /\ UNCHANGED notRetryVars

\* _wrapper of catch_retry / catch_retry_obj / _catch_retry_class:
\* `while flag or retry_num > 0`
\* holds and `func(*args, **kwargs)` is called. func is the next wrapper
\* layer, or under the innermost layer the undecorated callable.
WrapperInvoke ==
    /\ phase = "running" /\ stack # <<>>
    /\ deco.kind # "catch"
    /\ Top.pc = "loop"
    /\ FrameFlag \/ Top.retry_num > 0
    /\ IF Len(stack) < deco.layers
       THEN /\ stack' = Append(SetTop([Top EXCEPT !.pc = "call"]), NewFrame)
            /\ UNCHANGED <<inflight, trace>>
       ELSE /\ Calls < MaxCalls
            /\ trace' = Append(trace, CallEvent)
            /\ inflight' = PlanAt(plan, Calls + 1)
            /\ stack' = SetTop([Top EXCEPT !.pc = "call"])
    /\ UNCHANGED <<phase, deco, plan, logs>>
    /\ UNCHANGED notRetryVars

\* Mutant: the exhausted loop re-raises the last exception.
WrapperExhausted_Reraise ==
    /\ phase = "running" /\ stack # <<>>
    /\ deco.kind # "catch"
    /\ Top.pc = "loop"
    /\ ~(FrameFlag \/ Top.retry_num > 0)
    /\ stack' = Pop
    /\ inflight' = PlanAt(plan, Calls)
    /\ UNCHANGED <<phase, deco, plan, trace, logs>>
    /\ UNCHANGED notRetryVars

\* Mutant: the exhausted loop returns the default value, not err_return.
WrapperExhausted_Default ==
    /\ phase = "running" /\ stack # <<>>
    /\ deco.kind # "catch"
    /\ Top.pc = "loop"
    /\ ~(FrameFlag \/ Top.retry_num > 0)
    /\ stack' = Pop
    /\ inflight' = Returned(DEFAULT_VALUE, "fallback")
    /\ UNCHANGED <<phase, deco, plan, trace, logs>>
    /\ UNCHANGED notRetryVars

\* Mutant: an inner layer that ran out of attempts re-raises the last
\* exception; only the outermost layer returns err_return.
WrapperExhausted_InnerReraise ==
    /\ phase = "running" /\ stack # <<>>
    /\ deco.kind # "catch"
    /\ Top.pc = "loop"
    /\ ~(FrameFlag \/ Top.retry_num > 0)
    /\ stack' = Pop
    /\ inflight' = IF Len(stack) > 1 THEN PlanAt(plan, Calls)
                   ELSE Returned(deco.err_return, "fallback")
    /\ UNCHANGED <<phase, deco, plan, trace, logs>>
    /\ UNCHANGED notRetryVars

\* The loop condition fails: `return err_return`.
WrapperExhausted ==
    /\ phase = "running" /\ stack # <<>>
    /\ deco.kind # "catch"
    /\ Top.pc = "loop"
    /\ ~(FrameFlag \/ Top.retry_num > 0)
    /\ stack' = Pop
    /\ inflight' = Returned(deco.err_return, "fallback")
    /\ UNCHANGED <<phase, deco, plan, trace, logs>>
    /\ UNCHANGED notRetryVars

\* func returned or raised: `return func(...)`, or `except Exception as e`
\* builds its message, which reads func.__name__, and logs it; an exception
\* the clause does not catch leaves _wrapper, and so does the AttributeError
\* of a func without __name__, raised in the handler before anything is
\* logged.
WrapperResume ==
    /\ phase = "running" /\ stack # <<>>
    /\ deco.kind # "catch"
    /\ Top.pc = "call"
    /\ inflight.t # "none"
    /\ IF inflight.t = "raise" /\ ExceptMatches(inflight.kind, ExceptClass)
       THEN IF FuncNamed
            THEN /\ logs' = Append(logs, CaughtLogLevel)
                 /\ stack' = SetTop([Top EXCEPT !.pc = "fault"])
                 /\ inflight' = NoOutcome
            ELSE /\ stack' = Pop
                 /\ inflight' = NoNameFault
                 /\ UNCHANGED logs
       ELSE /\ stack' = Pop
            /\ inflight' = ClassResult(inflight)
            /\ UNCHANGED logs
    /\ UNCHANGED <<phase, deco, plan, trace>>
    /\ UNCHANGED notRetryVars

\* Mutant: the sleep is skipped one retry too early (retry_num > 1).
AfterFault_OffByOne(frame) ==
    IF ~FrameFlag
    THEN [retry_num |-> frame.retry_num - 1,
          pc |-> IF frame.retry_num - 1 > 1 THEN "sleep" ELSE "loop"]
    ELSE [frame EXCEPT !.pc = "sleep"]

\* Mutant: the wrapper sleeps after every fault, the last one included.
AfterFault_AlwaysSleep(frame) ==
    IF ~FrameFlag
    THEN [retry_num |-> frame.retry_num - 1, pc |-> "sleep"]
    ELSE [frame EXCEPT !.pc = "sleep"]

\* After the except clause:
\*   if not flag: retry_num -= 1; if retry_num > 0: time.sleep(sleep_time)
\*   else:        time.sleep(sleep_time)
AfterFault(frame) ==
    IF ~FrameFlag
    THEN [retry_num |-> frame.retry_num - 1,
          pc |-> IF frame.retry_num - 1 > 0 THEN "sleep" ELSE "loop"]
    ELSE [frame EXCEPT !.pc = "sleep"]

WrapperAfterFault ==
    /\ phase = "running" /\ stack # <<>>
    /\ Top.pc = "fault"
    /\ stack' = SetTop(AfterFault(Top))
    /\ UNCHANGED <<phase, deco, plan, inflight, trace, logs>>
    /\ UNCHANGED notRetryVars

\* time.sleep(sleep_time), then back to the loop condition.
WrapperSleep ==
    /\ phase = "running" /\ stack # <<>>
    /\ Top.pc = "sleep"
    /\ trace' = Append(trace, SleepEvent(SleepDuration(Top)))
    /\ stack' = SetTop([Top EXCEPT !.pc = "loop"])
    /\ UNCHANGED <<phase, deco, plan, inflight, logs>>
    /\ UNCHANGED notRetryVars

\* _wrapper of Decorate.catch: `return func(*args, **kwargs)` is entered.
CatchInvoke ==
    /\ phase = "running" /\ stack # <<>>
    /\ deco.kind = "catch"
    /\ Top.pc = "try"
    /\ trace' = Append(trace, CallEvent)
    /\ inflight' = PlanAt(plan, Calls + 1)
    /\ stack' = SetTop([Top EXCEPT !.pc = "call"])
    /\ UNCHANGED <<phase, deco, plan, logs>>
    /\ UNCHANGED notRetryVars

\* _wrapper of Decorate.catch: func returned, or `except exception as e`
\* builds its message, which reads func.__name__, logs it and `return result`
\* follows; an exception the clause does not catch leaves _wrapper, and so
\* does the AttributeError of a func without __name__, raised in the handler
\* before anything is logged.
CatchResume ==
    /\ phase = "running" /\ stack # <<>>
    /\ deco.kind = "catch"
    /\ Top.pc = "call"
    /\ inflight.t # "none"
    /\ stack' = Pop
    /\ IF inflight.t = "raise" /\ ExceptMatches(inflight.kind, ExceptClass)
       THEN IF FuncNamed
            THEN /\ logs' = Append(logs, CaughtLogLevel)
                 /\ inflight' = Returned(deco.err_return, "fallback")
            ELSE /\ inflight' = NoNameFault
                 /\ UNCHANGED logs
       ELSE UNCHANGED <<inflight, logs>>
    /\ UNCHANGED <<phase, deco, plan, trace>>
    /\ UNCHANGED notRetryVars

\* The call of the wrapped operation is over: the caller holds `inflight`.
Done == phase = "running" /\ stack = <<>>

(***************************************************************************)
(* The timeout guard: Decorate.limit_time and MyThread.                    *)
(***************************************************************************)
GuardCalls == {1, 2}

\* time.sleep(0.5), in ticks of 0.02 s.
SliceTicks == 25
\* One time unit (a second), and one decimal place of it.
TicksPerUnit == 2 * SliceTicks
DecimalTicks == SliceTicks \div 5

MaxLimitUnits == 2

\* The limits tried: whole units plus a fraction of 0, 0.04, 0.4 or 0.96.
LimitFractions == {0, 2, 20, 48}
Limits ==
    { u * TicksPerUnit + f : u \in 0 .. MaxLimitUnits, f \in LimitFractions } \ {0}

\* What the guarded callable does on the worker thread: how long it runs
\* and how it ends, or that it never ends.
WorkerOutcomes ==
    { Returned("'ok'", "func"), Returned("0", "func"), Raised("ValueError", "m1") }
WorkerDurations == {0, 1, 10, 30, 49, 75}
WorkerBehaviours ==
    [dur : WorkerDurations, work : WorkerOutcomes, hangs : {FALSE}]
        \cup { [dur |-> 0, work |-> Returned("'ok'", "func"), hangs |-> TRUE] }

NoGuard == [limit |-> 0, err_result |-> "None", named |-> TRUE]
IdleCall == [pc |-> "idle", i |-> 0, wake |-> 0, start |-> 0, info |-> "None",
             ret |-> NoOutcome]
NoThread == [state |-> "unstarted", result |-> "None", finish |-> 0,
             hangs |-> FALSE, work |-> NoOutcome]

GuardInit ==
    /\ now = 0
    /\ guard = NoGuard
    /\ gcall = [c \in GuardCalls |-> IdleCall]
    /\ thread = [c \in GuardCalls |-> NoThread]
    /\ warnings = [c \in GuardCalls |-> 0]

\* Decorate.limit_time(limit_time, err_result=None)(func), where func has a
\* __name__ or has none.
GuardDecorate ==
    /\ guard = NoGuard
    /\ \E limit \in Limits, err_result \in {"None", "'fb'"}, named \in BOOLEAN :
          guard' = [limit |-> limit, err_result |-> err_result, named |-> named]
    /\ UNCHANGED <<now, gcall, thread, warnings>>
    /\ UNCHANGED notGuardVars

\* MyThread.__init__ and start(): result = None, the worker begins func.
StartedThread(b) ==
    [state |-> "running", result |-> "None", finish |-> now + b.dur,
     hangs |-> b.hangs, work |-> b.work]

\* MyThread.get_result(): `return self.result`.
get_result(th) == th.result

\* sleep_num = int(limit_time // 1)
SleepNum == guard.limit \div TicksPerUnit

\* Mutant: the fraction is rounded up to a whole unit.
Round1_Unit(x) == IF x = 0 THEN 0 ELSE TicksPerUnit

\* round(x, 1) of a fraction x of a unit, in ticks.
Round1(x) == DecimalTicks * ((x + DecimalTicks \div 2) \div DecimalTicks)

\* sleep_nums = round(limit_time % 1, 1)
SleepNums == Round1(guard.limit % TicksPerUnit)

\* `for i in range(sleep_num): time.sleep(0.5)`, then `time.sleep(sleep_nums)`:
\* the sleep the caller enters with loop index i.
EnterSleep(call, i) ==
    IF i < SleepNum
    THEN [call EXCEPT !.pc = "slice", !.i = i, !.wake = now + SliceTicks]
    ELSE [call EXCEPT !.pc = "final", !.i = i, !.wake = now + SleepNums]

\* run(*params): the thread is created, made a daemon and started, and the
\* caller enters its first sleep.
GuardCall(c) ==
    /\ guard # NoGuard
    /\ gcall[c].pc = "idle"
    /\ \E b \in WorkerBehaviours :
          thread' = [thread EXCEPT ![c] = StartedThread(b)]
    /\ gcall' = [gcall EXCEPT ![c] = EnterSleep([IdleCall EXCEPT !.start = now], 0)]
    /\ UNCHANGED <<now, guard, warnings>>
    /\ UNCHANGED notGuardVars

\* Mutant: the worker stores the exception it died of as its result.
WorkerFinish_StoresFault(c) ==
    /\ thread[c].state = "running"
    /\ ~thread[c].hangs
    /\ now >= thread[c].finish
    /\ thread' = [thread EXCEPT ![c] =
                    IF thread[c].work.t = "ret"
                    THEN [@ EXCEPT !.state = "finished", !.result = thread[c].work.v]
                    ELSE [@ EXCEPT !.state = "dead", !.result = thread[c].work.kind]]
    /\ UNCHANGED <<now, guard, gcall, warnings>>
    /\ UNCHANGED notGuardVars

\* MyThread.run(): `self.result = self.func(*self.args)`; an exception of
\* func ends the thread and leaves result as it was.
WorkerFinish(c) ==
    /\ thread[c].state = "running"
    /\ ~thread[c].hangs
    /\ now >= thread[c].finish
    /\ thread' = [thread EXCEPT ![c] =
                    IF thread[c].work.t = "ret"
                    THEN [@ EXCEPT !.state = "finished", !.result = thread[c].work.v]
                    ELSE [@ EXCEPT !.state = "dead"]]
    /\ UNCHANGED <<now, guard, gcall, warnings>>
    /\ UNCHANGED notGuardVars

\* Mutant: thread_func is kept where all calls of the wrapper see it, so that
\* a call reads the thread started last, which may be another call's.
SliceWake_SharedThread(c) ==
    /\ gcall[c].pc = "slice"
    /\ now >= gcall[c].wake
    /\ LET latest == CHOOSE x \in GuardCalls :
                         /\ thread[x].state # "unstarted"
                         /\ \A y \in GuardCalls :
                               thread[y].state # "unstarted" =>
                                   gcall[y].start <= gcall[x].start
           info == get_result(thread[latest])
       IN  gcall' = [gcall EXCEPT ![c] =
                IF Truthy(info)
                THEN [@ EXCEPT !.pc = "done", !.info = info,
                               !.ret = Returned(info, "func")]
                ELSE EnterSleep([@ EXCEPT !.info = info], @.i + 1)]
    /\ UNCHANGED <<now, guard, thread, warnings>>
    /\ UNCHANGED notGuardVars

\* After a slice: `info = thread_func.get_result(); if info: return info`.
SliceWake(c) ==
    /\ gcall[c].pc = "slice"
    /\ now >= gcall[c].wake
    /\ LET info == get_result(thread[c])
       IN  gcall' = [gcall EXCEPT ![c] =
                IF Truthy(info)
                THEN [@ EXCEPT !.pc = "done", !.info = info,
                               !.ret = Returned(info, "func")]
                ELSE EnterSleep([@ EXCEPT !.info = info], @.i + 1)]
    /\ UNCHANGED <<now, guard, thread, warnings>>
    /\ UNCHANGED notGuardVars

\* After the last sleep: `if thread_func.get_result():` and, when it is
\* false, logger.warning and `return err_result`. The warning's message reads
\* func.__name__: for a func without one that raises AttributeError out of
\* run before anything is logged or returned.
FinalWake(c) ==
    /\ gcall[c].pc = "final"
    /\ now >= gcall[c].wake
    /\ IF Truthy(get_result(thread[c]))
       THEN /\ gcall' = [gcall EXCEPT ![c].pc = "read"]
            /\ UNCHANGED warnings
       ELSE IF guard.named
            THEN /\ gcall' = [gcall EXCEPT ![c].pc = "done",
                                           ![c].ret = Returned(guard.err_result,
                                                               "fallback")]
                 /\ warnings' = [warnings EXCEPT ![c] = @ + 1]
            ELSE /\ gcall' = [gcall EXCEPT ![c].pc = "done",
                                           ![c].ret = NoNameFault]
                 /\ UNCHANGED warnings
    /\ UNCHANGED <<now, guard, thread>>
    /\ UNCHANGED notGuardVars

\* `return thread_func.get_result()`: the second read.
FinalRead(c) ==
    /\ gcall[c].pc = "read"
    /\ gcall' = [gcall EXCEPT ![c].pc = "done",
                              ![c].ret = Returned(get_result(thread[c]), "func")]
    /\ UNCHANGED <<now, guard, thread, warnings>>
    /\ UNCHANGED notGuardVars

\* The instants at which a sleeping caller wakes or a worker ends.
PendingTimes ==
    { gcall[c].wake : c \in { x \in GuardCalls : gcall[x].pc \in {"slice", "final"} } }
    \cup { thread[c].finish :
            c \in { x \in GuardCalls : thread[x].state = "running" /\ ~thread[x].hangs } }

\* Time passes up to the next such instant; nothing due is left behind.
Advance ==
    /\ \A c \in GuardCalls : gcall[c].pc # "read"
    /\ PendingTimes # {}
    /\ \A t \in PendingTimes : t > now
    /\ now' = CHOOSE t \in PendingTimes : \A u \in PendingTimes : t <= u
    /\ UNCHANGED <<guard, gcall, thread, warnings>>
    /\ UNCHANGED notGuardVars

GuardNext ==
    \/ GuardDecorate
    \/ \E c \in GuardCalls : GuardCall(c)
    \/ \E c \in GuardCalls : WorkerFinish(c)
    \/ \E c \in GuardCalls : SliceWake(c)
    \/ \E c \in GuardCalls : FinalWake(c)
    \/ \E c \in GuardCalls : FinalRead(c)
    \/ Advance

(***************************************************************************)
(* The process-wide lock: Decorate.synchronized and Decorate.singleton.    *)
(***************************************************************************)
MaxThreads == 2
MaxDepth == 3

Threads == 1 .. MaxThreads

\* The synchronized-wrapped operations and the singleton-wrapped types.
SyncOps == {"f", "g"}
SingletonOps == {"A", "B"}

\* The wrappers the threads call: two operations and one type where the
\* registry of a type is looked at, one operation and two types where the
\* sharing of the lock is.
LockOps == SyncOps \cup {"A"}
SharedOps == {"f"} \cup SingletonOps
ProgressOps == {"f", "A"}

\* The argument a constructor call passes.
CtorArgs == {1, 2}

\* Decorate.LOCK = threading.RLock(), not held.
FreeLock == [owner |-> 0, count |-> 0]

\* The number of times thread t holds lock l.
HoldCount(l, t) == IF l.owner = t THEN l.count ELSE 0

\* Mutant: the lock is not taken at all.
CanAcquire_Always(l, t) == TRUE

\* Mutant: a plain Lock, which its owner cannot take again.
CanAcquire_NonReentrant(l, t) == l.owner = 0

\* RLock.acquire() does not block thread t: the lock is free or t owns it.
CanAcquire(l, t) == l.owner = 0 \/ l.owner = t

\* RLock.acquire() by thread t (`with Decorate.LOCK:` entered).
AcquireLock(l, t) == [owner |-> t, count |-> l.count + 1]

\* Mutant: a release that does not count down a hold taken more than once.
ReleaseLock_Stuck(l) ==
    IF l.count <= 1 THEN FreeLock ELSE l

\* RLock.release().
ReleaseLock(l) ==
    IF l.count <= 1 THEN FreeLock ELSE [l EXCEPT !.count = @ - 1]

\* Mutant: the lock is released only when the body returned.
WithExit_LeakOnFault(l, out) == IF out.t = "raise" THEN l ELSE ReleaseLock(l)

\* `with Decorate.LOCK:` left with outcome `out` of its body: __exit__
\* releases, whether the body returned or raised.
WithExit(l, out) == ReleaseLock(l)

\* What the body of a synchronized operation ends with.
BodyOutcomes ==
    { Returned("'ok'", "func"), Raised("ValueError", "m1"),
      Raised("KeyboardInterrupt", "m3") }

\* What a constructor that fails raises.
CtorFaults == { Raised("ValueError", "m1") }

\* `cls not in instances`
NoInstance == [cls |-> "", serial |-> 0, arg |-> 0]

\* The object the n-th completed constructor call of cls built from arg.
NewObject(cls, n, arg) == [cls |-> cls, serial |-> n, arg |-> arg]

\* An invocation that ended: by how much the thread's hold count when the
\* wrapper was left differs from the one when it called the wrapper, what
\* the body did and what the wrapper gave its caller; obj is the object a
\* singleton wrapper returned (its outcome's value is then just "instance").
Ended(frame, after, body, out, obj) ==
    [delta |-> after - frame.held, body |-> body, out |-> out, obj |-> obj]

NoLast == [delta |-> 0, body |-> NoOutcome, out |-> NoOutcome, obj |-> NoInstance]

LockInit ==
    /\ lock = FreeLock
    /\ tstack = [t \in Threads |-> <<>>]
    /\ instances = [c \in SingletonOps |-> NoInstance]
    /\ constructed = [c \in SingletonOps |-> 0]
    /\ last = NoLast

TopOf(t) == tstack[t][Len(tstack[t])]
Push(t, f) == [tstack EXCEPT ![t] = Append(@, f)]
PopOf(t) == [tstack EXCEPT ![t] = SubSeq(@, 1, Len(@) - 1)]
SetTopOf(t, f) == [tstack EXCEPT ![t][Len(tstack[t])] = f]

\* Thread t calls the wrapper of op, from outside or from the body of a
\* wrapped operation or constructor it is running; it reaches
\* `with Decorate.LOCK:`. Only a constructor call's argument is recorded.
WrapperCall(t, op, arg) ==
    /\ op \in SyncOps => arg = 1
    /\ Len(tstack[t]) < MaxDepth
    /\ tstack[t] # <<>> => TopOf(t).pc = "body"
    /\ tstack' = Push(t, [op |-> op, pc |-> "acquire", arg |-> arg,
                          held |-> HoldCount(lock, t)])
    /\ UNCHANGED <<lock, instances, constructed, last>>
    /\ UNCHANGED notLockVars

\* synchronized/_wrapper: the lock is acquired and func is entered.
SyncEnter(t) ==
    /\ tstack[t] # <<>>
    /\ TopOf(t).pc = "acquire" /\ TopOf(t).op \in SyncOps
    /\ CanAcquire(lock, t)
    /\ lock' = AcquireLock(lock, t)
    /\ tstack' = SetTopOf(t, [TopOf(t) EXCEPT !.pc = "body"])
    /\ UNCHANGED <<instances, constructed, last>>
    /\ UNCHANGED notLockVars

\* synchronized/_wrapper: func returns or raises, the `with` block is left
\* and the wrapper returns or propagates what func did.
SyncExit(t) ==
    /\ tstack[t] # <<>>
    /\ TopOf(t).pc = "body" /\ TopOf(t).op \in SyncOps
    /\ \E out \in BodyOutcomes :
          /\ lock' = WithExit(lock, out)
          /\ last' = Ended(TopOf(t), HoldCount(lock', t), out, out, NoInstance)
    /\ tstack' = PopOf(t)
    /\ UNCHANGED <<instances, constructed>>
    /\ UNCHANGED notLockVars

\* Mutant: singleton guards its registry with a lock of its own, so that its
\* wrapper never waits for Decorate.LOCK.
SingletonEnter_OwnLock(t) ==
    /\ tstack[t] # <<>>
    /\ TopOf(t).pc = "acquire" /\ TopOf(t).op \in SingletonOps
    /\ LET cls == TopOf(t).op
           out == Returned("instance", "registry")
       IN  IF instances[cls] = NoInstance
           THEN /\ tstack' = SetTopOf(t, [TopOf(t) EXCEPT !.pc = "body"])
                /\ UNCHANGED last
           ELSE /\ tstack' = PopOf(t)
                /\ last' = Ended(TopOf(t), HoldCount(lock, t), out, out, instances[cls])
    /\ UNCHANGED <<lock, instances, constructed>>
    /\ UNCHANGED notLockVars

\* singleton/wrapper: the lock is acquired; `if cls not in instances` either
\* enters the constructor cls(*args, **kw) or, the entry being there, the
\* wrapper returns instances[cls] and releases the lock.
SingletonEnter(t) ==
    /\ tstack[t] # <<>>
    /\ TopOf(t).pc = "acquire" /\ TopOf(t).op \in SingletonOps
    /\ CanAcquire(lock, t)
    /\ LET cls == TopOf(t).op
           out == Returned("instance", "registry")
       IN  IF instances[cls] = NoInstance
           THEN /\ lock' = AcquireLock(lock, t)
                /\ tstack' = SetTopOf(t, [TopOf(t) EXCEPT !.pc = "body"])
                /\ UNCHANGED last
           ELSE /\ lock' = WithExit(AcquireLock(lock, t), out)
                /\ tstack' = PopOf(t)
                /\ last' = Ended(TopOf(t), HoldCount(lock', t), out, out, instances[cls])
    /\ UNCHANGED <<instances, constructed>>
    /\ UNCHANGED notLockVars

\* singleton/wrapper: the constructor completes; `instances[cls] = ...` stores
\* the new object, `return instances[cls]` returns it, the lock is released.
SingletonConstructed(t) ==
    /\ tstack[t] # <<>>
    /\ TopOf(t).pc = "body" /\ TopOf(t).op \in SingletonOps
    /\ LET cls == TopOf(t).op
           obj == NewObject(cls, constructed[cls] + 1, TopOf(t).arg)
           out == Returned("instance", "registry")
       IN  /\ constructed' = [constructed EXCEPT ![cls] = @ + 1]
           /\ instances' = [instances EXCEPT ![cls] = obj]
           /\ lock' = WithExit(lock, out)
           /\ last' = Ended(TopOf(t), HoldCount(lock', t), out, out, obj)
    /\ tstack' = PopOf(t)
    /\ UNCHANGED notLockVars

\* singleton/wrapper: the constructor raises; nothing is stored, the lock is
\* released and the exception leaves the wrapper.
SingletonFails(t) ==
    /\ tstack[t] # <<>>
    /\ TopOf(t).pc = "body" /\ TopOf(t).op \in SingletonOps
    /\ UNCHANGED <<instances, constructed>>
    /\ \E out \in CtorFaults :
          /\ lock' = WithExit(lock, out)
          /\ last' = Ended(TopOf(t), HoldCount(lock', t), out, out, NoInstance)
    /\ tstack' = PopOf(t)
    /\ UNCHANGED notLockVars

LockNext ==
    \/ \E t \in Threads, op \in LockOps, arg \in CtorArgs : WrapperCall(t, op, arg)
    \/ \E t \in Threads : SyncEnter(t)
    \/ \E t \in Threads : SyncExit(t)
    \/ \E t \in Threads : SingletonEnter(t)
    \/ \E t \in Threads : SingletonConstructed(t)
    \/ \E t \in Threads : SingletonFails(t)

\* The same wrappers, called on one synchronized operation and two
\* singleton types; the constructors take no argument.
SharedNext ==
    \/ \E t \in Threads, op \in SharedOps : WrapperCall(t, op, 1)
    \/ \E t \in Threads : SyncEnter(t)
    \/ \E t \in Threads : SyncExit(t)
    \/ \E t \in Threads : SingletonEnter(t)
    \/ \E t \in Threads : SingletonConstructed(t)
    \/ \E t \in Threads : SingletonFails(t)

\* Thread t takes the lock: the `with Decorate.LOCK:` of either wrapper.
LockEnter(t) == SyncEnter(t) \/ SingletonEnter(t)

\* A body that runs d wrappers deep ends, by a return or a fault.
BodyEnds(d) ==
    \E t \in Threads :
        /\ Len(tstack[t]) = d
        /\ (SyncExit(t) \/ SingletonConstructed(t) \/ SingletonFails(t))

\* The same wrappers, called on one synchronized operation and one
\* singleton type.
ProgressNext ==
    \/ \E t \in Threads, op \in ProgressOps : WrapperCall(t, op, 1)
    \/ \E t \in Threads : SyncEnter(t)
    \/ \E t \in Threads : SyncExit(t)
    \/ \E t \in Threads : SingletonEnter(t)
    \/ \E t \in Threads : SingletonConstructed(t)
    \/ \E t \in Threads : SingletonFails(t)

\* Threads need not call anything. A thread that waits for the lock gets it
\* if the lock is free again and again (fair acquisition), and every body
\* terminates: at each depth, a body that can end again and again does end,
\* however many calls it makes. The bodies need no condition per thread:
\* while one thread is in a body, at any depth, no other thread is in one.
\* Each of these steps changes a thread's stack of calls.
ProgressFairness ==
    /\ \A t \in Threads : SF_tstack(LockEnter(t))
    /\ \A d \in 1 .. MaxDepth : SF_tstack(BodyEnds(d))

(***************************************************************************)
(* Response (pymagic/_response.py): the outcome record of an execution.    *)
(* Instants and durations are counted in ticks of 0.1 microsecond.         *)
(***************************************************************************)
\* `exception is None`, and an exception object by class name and message.
NoException == [kind |-> "None", msg |-> ""]
ExceptionOf(o) == [kind |-> o.kind, msg |-> o.msg]

\* An optional instant: None, or a clock reading.
NoTime == [some |-> FALSE, at |-> 0]
At(x) == [some |-> TRUE, at |-> x]

\* An optional metadata dict: None, or a dict from keys to values.
MetaKeys == {"k1", "k2"}
EmptyMeta == [k \in {} |-> "v"]
MetaDicts == UNION { [K -> {"v"}] : K \in SUBSET MetaKeys }
NoMetaArg == [some |-> FALSE, map |-> EmptyMeta]
MetaArg(m) == [some |-> TRUE, map |-> m]

\* Readings of time.perf_counter() (monotonic, counted from an origin the
\* platform chooses, so that 0 is one of them) and of time.time().
PerfInstants == {0, 1, 50}
WallInstants == {1700}

\* What a callable handed to execute does: how it ends, how long it runs, and
\* whether it has a __name__ (a function has, a functools.partial object or
\* an instance with __call__ has not).
ExecOutcomes ==
    { Returned("8", "func"), Returned("None", "func"),
      Raised("ValueError", "m1"), Raised("KeyboardInterrupt", "m3") }
ExecDurations == {0, 4, 14, 15, 16, 123}
Callables == [out : ExecOutcomes, dur : ExecDurations, named : BOOLEAN]

NoCallable == [out |-> NoOutcome, dur |-> 0, named |-> TRUE]

\* Response.__init__(success, result, exception, execution_time, start_time,
\*                   end_time, metadata), called at wall-clock instant wall.
\*   self.start_time = start_time or time.time()
\*   self.metadata = metadata or {}
ResponseNew(success, result, exception, execution_time, start_time, end_time, metadata, wall) ==
    [success |-> success,
     result |-> result,
     exception |-> exception,
     execution_time |-> execution_time,
     start_time |-> IF start_time.some /\ start_time.at # 0
                    THEN start_time ELSE At(wall),
     end_time |-> end_time,
     metadata |-> IF metadata.some /\ metadata.map # EmptyMeta
                  THEN metadata.map ELSE EmptyMeta]

\* No Response object yet.
NoResponse ==
    [success |-> TRUE, result |-> "<no response>", exception |-> NoException,
     execution_time |-> 0, start_time |-> NoTime, end_time |-> NoTime,
     metadata |-> EmptyMeta]

\* The history of the Response object: the last operation on it and the one
\* before, where the object came from, how many times it was cleared, the
\* callable execute ran, and the fields before the last clear() or write.
NoHist == [op |-> "none", prevop |-> "none", origin |-> "none", clears |-> 0,
           f |-> NoCallable, prev |-> NoResponse, logged |-> <<>>]

\* The right-hand side of a comparison: another Response, or a plain value.
OtherResponse(r) == [isresp |-> TRUE, r |-> r, v |-> ""]
OtherValue(v) == [isresp |-> FALSE, r |-> NoResponse, v |-> v]

Others ==
    { OtherResponse(ResponseNew(TRUE, v, NoException, 20, At(50), At(60),
                                NoMetaArg, 1700)) : v \in {"None", "'ok'", "False"} }
    \cup
    { OtherResponse(ResponseNew(FALSE, v, ExceptionOf(Raised("TypeError", "m2")),
                                0, NoTime, NoTime, MetaArg([k \in {"k1"} |-> "v"]),
                                1700)) : v \in {"None", "'ok'", "False"} }
    \cup
    { OtherValue(v) : v \in {"None", "'ok'", "0", "False"} }

\* Mutant: two Response objects are equal when all their fields are.
Response_eq_AllFields(self, other) ==
    IF other.isresp THEN self = other.r ELSE PyEq(self.result, other.v)

\* Response.__eq__(self, other)
Response_eq(self, other) ==
    IF other.isresp THEN PyEq(self.result, other.r.result)
    ELSE PyEq(self.result, other.v)

\* Response.__ne__(self, other): not self.__eq__(other)
Response_ne(self, other) == ~Response_eq(self, other)

\* Response.__bool__(self): bool(self.result)
Response_bool(self) == Truthy(self.result)

NoCompare ==
    [done |-> FALSE, other |-> OtherValue("None"),
     eq |-> FALSE, ne |-> FALSE, truth |-> FALSE]

OutcomeInit ==
    /\ resp = NoResponse
    /\ rhist = NoHist
    /\ rescaped = NoOutcome
    /\ rcmp = NoCompare

\* Response(...) built by a caller, with any combination of arguments. A
\* behaviour follows one Response object from its creation on.
ResponseInit ==
    /\ rhist.origin = "none"
    /\ \E success \in BOOLEAN, result \in {"None", "'ok'", "0"},
          exception \in {NoException, ExceptionOf(Raised("ValueError", "m1"))},
          execution_time \in {0, 20},
          start_time \in {NoTime, At(0), At(50)},
          end_time \in {NoTime, At(60)},
          metadata \in {NoMetaArg} \cup { MetaArg(m) : m \in MetaDicts },
          wall \in WallInstants :
            resp' = ResponseNew(success, result, exception, execution_time,
                                start_time, end_time, metadata, wall)
    /\ rhist' = [NoHist EXCEPT !.op = "init", !.origin = "init"]
    /\ UNCHANGED rescaped
    /\ rcmp' = NoCompare
    /\ UNCHANGED notOutcomeVars

\* 1e-6 s, the least execution_time execute reports.
Epsilon == 10

Max(a, b) == IF a >= b THEN a ELSE b

\* round(x, 6): what it can give for a duration of x ticks. It is the
\* nearest microsecond; for a duration half-way between two microseconds the
\* binary float lies a little under or over the half, depending on the
\* instants it was computed from, and either neighbour can come out.
Round6(x) ==
    IF x % 10 = 5 THEN {10 * (x \div 10), 10 * (x \div 10) + 10}
    ELSE {10 * ((x + 5) \div 10)}

\* execution_time = max(end_time - start_time, 1e-6), rounded to 6 places:
\* the values it can have.
ExecutionTime(d) == Round6(Max(d, Epsilon))

\* Mutant: a caught exception leaves success as it was set before the try.
TryOutcome_KeepsSuccess(f) ==
    IF f.out.t = "ret"
    THEN [success |-> TRUE, result |-> f.out.v, exception |-> NoException]
    ELSE [success |-> TRUE, result |-> "None", exception |-> ExceptionOf(f.out)]

\* The try statement of execute: success, result and exception after
\* `result = func(*args, **kwargs)` returned or `except Exception as e` ran.
TryOutcome(f) ==
    IF f.out.t = "ret"
    THEN [success |-> TRUE, result |-> f.out.v, exception |-> NoException]
    ELSE [success |-> FALSE, result |-> "None", exception |-> ExceptionOf(f.out)]

\* What leaves execute as an exception: one of func that is no Exception, or
\* the AttributeError of `func.__name__` in the handler's log message.
ExecuteRaises(f) ==
    IF f.out.t # "raise" THEN NoOutcome
    ELSE IF ~ExceptMatches(f.out.kind, "Exception") THEN f.out
    ELSE IF ~f.named THEN Raised("AttributeError", "__name__")
    ELSE NoOutcome

\* The log records execute emits, by level: in the handler of
\* `except Exception`, logger.error(f"[{real_location}] ...: {func.__name__}\n...")
\* once its message has been built.
ExecuteLogs(f) ==
    IF f.out.t = "raise" /\ ExceptMatches(f.out.kind, "Exception") /\ f.named
    THEN <<"ERROR">> ELSE <<>>

\* Response.execute(func, *args, **kwargs), entered at perf_counter() = start.
ResponseExecute ==
    \E f \in Callables, start \in PerfInstants, wall \in WallInstants :
        /\ rhist.origin = "none"
        /\ rescaped' = ExecuteRaises(f)
        /\ IF ExecuteRaises(f) # NoOutcome
           THEN /\ rhist' = [NoHist EXCEPT !.op = "execute", !.f = f,
                                           !.logged = ExecuteLogs(f)]
                /\ UNCHANGED resp
           ELSE /\ \E execution_time \in ExecutionTime(f.dur) :
                      resp' = ResponseNew(TryOutcome(f).success, TryOutcome(f).result,
                                          TryOutcome(f).exception,
                                          execution_time,
                                          At(start), At(start + f.dur),
                                          NoMetaArg, wall)
                /\ rhist' = [NoHist EXCEPT !.op = "execute",
                                           !.origin = "execute", !.f = f,
                                           !.logged = ExecuteLogs(f)]
        /\ rcmp' = NoCompare
        /\ UNCHANGED notOutcomeVars

\* Mutant: clear() puts the object back to a fresh, successful state.
clear_ResetsSuccess(r) ==
    [r EXCEPT !.success = TRUE, !.result = "None", !.exception = NoException,
              !.metadata = EmptyMeta]

\* Response.clear(): result = None, exception = None, metadata.clear().
clear(r) ==
    [r EXCEPT !.result = "None", !.exception = NoException,
              !.metadata = EmptyMeta]

\* The most clear() calls in a row that the history counts.
ClearsCounted == 2

ResponseClear ==
    /\ rhist.origin # "none"
    /\ resp' = clear(resp)
    /\ rhist' = [rhist EXCEPT !.op = "clear", !.prevop = rhist.op, !.prev = resp,
                              !.clears = IF @ < ClearsCounted THEN @ + 1 ELSE @]
    /\ UNCHANGED rescaped
    /\ rcmp' = NoCompare
    /\ UNCHANGED notOutcomeVars

\* response.metadata[key] = value
MetadataWrite ==
    /\ rhist.origin # "none"
    /\ \E k \in MetaKeys :
          resp' = [resp EXCEPT !.metadata =
                      [x \in (DOMAIN resp.metadata) \cup {k} |-> "v"]]
    /\ rhist' = [rhist EXCEPT !.op = "meta", !.prevop = rhist.op, !.prev = resp]
    /\ UNCHANGED rescaped
    /\ rcmp' = NoCompare
    /\ UNCHANGED notOutcomeVars

\* `response == other`, `response != other` and `bool(response)`, evaluated
\* on the Response object as it is now.
ResponseCompare ==
    /\ rhist.origin # "none"
    /\ \E other \in Others :
          rcmp' = [done |-> TRUE, other |-> other,
                   eq |-> Response_eq(resp, other),
                   ne |-> Response_ne(resp, other),
                   truth |-> Response_bool(resp)]
    /\ UNCHANGED <<resp, rhist, rescaped>>
    /\ UNCHANGED notOutcomeVars

OutcomeNext ==
    \/ ResponseCompare
    \/ ResponseInit
    \/ ResponseExecute
    \/ ResponseClear
    \/ MetadataWrite

(***************************************************************************)
(* Enumerating the members of a target and rebinding them: class_func_list, *)
(* Decorate.iter_func, Decorate.catch_class_obj and Decorate.catch_class.   *)
(* A member name is the sequence of its characters.                        *)
(***************************************************************************)
MaxApplied == 2

DunderCall == <<"_", "_", "c", "a", "l", "l", "_", "_">>
Hidden == <<"_", "h">>
PublicNames == { <<"a">>, <<"b">>, <<"c">> }
Names == PublicNames \cup {DunderCall, Hidden}

\* dir(obj) lists the names in alphabetical order; "_" sorts before letters.
DirOrder == <<DunderCall, Hidden, <<"a">>, <<"b">>, <<"c">>>>

\* name.startswith('_')
StartsWithUnderscore(name) == Len(name) > 0 /\ name[1] = "_"

\* What the class of the target defines under a name: a method, a plain
\* (non-callable) attribute, a property, or nothing.
MemberMaps ==
    { m \in [Names -> {"absent", "method", "data", "property"}] :
        /\ m[Hidden] = "method"
        /\ m[DunderCall] \in {"absent", "method"} }

\* A target is a class or an instance of it; `frozen` holds the names whose
\* setattr on the target fails (read-only members).
Targets ==
    { [form |-> f, members |-> m, frozen |-> z] :
        f \in {"instance", "class"}, m \in MemberMaps,
        z \in { {}, {<<"b">>} } }

NoTarget == [form |-> "none", members |-> [n \in Names |-> "absent"], frozen |-> {}]

\* dir(target)
Dir(t) == SelectSeq(DirOrder, LAMBDA n : t.members[n] # "absent")

\* callable(target): a class, or an instance whose class defines __call__.
CallableTarget(t) == t.form = "class" \/ t.members[DunderCall] = "method"

\* getattr(target.__class__, name, None): for an instance the attribute of
\* its class, for a class the attribute of its metaclass `type`, which has
\* none of these names.
TypeAttr(t, name) == IF t.form = "instance" THEN t.members[name] ELSE "absent"

\* getattr(target, name) for a name the enumerator lists: the member with
\* the wrapper layers bound on it so far. On a class a property comes back
\* as the property object.
GetAttr(t, name, layers) ==
    [kind |-> t.members[name],
     callable |-> t.members[name] = "method",
     layers |-> layers[name]]

Entries(t, names, layers) ==
    [i \in 1 .. Len(names) |->
        [name |-> names[i], value |-> GetAttr(t, names[i], layers)]]

\* The filter of both enumerators:
\*   not name.startswith('_')
\*   and not isinstance(getattr(obj.__class__, name, None), property)
Listed(t, name) ==
    /\ ~StartsWithUnderscore(name)
    /\ TypeAttr(t, name) # "property"

\* class_func_list(cls)
class_func_list(t, layers) ==
    IF CallableTarget(t)
    THEN Entries(t, SelectSeq(Dir(t), LAMBDA n : Listed(t, n)), layers)
    ELSE <<>>

\* Decorate.iter_func(obj, flag_property=False); with flag_property the names
\* kept are those whose class attribute is callable and no property.
iter_func(t, flag_property, layers) ==
    IF ~flag_property
    THEN Entries(t, SelectSeq(Dir(t), LAMBDA n : Listed(t, n)), layers)
    ELSE Entries(t, SelectSeq(Dir(t),
                    LAMBDA n : /\ ~StartsWithUnderscore(n)
                               /\ TypeAttr(t, n) # "property"
                               /\ TypeAttr(t, n) = "method"), layers)

NoFault == "None"

\* The state a wrap carries along: layers bound per name, rebinds that
\* failed, warnings logged, and the exception that ended it.
WrapState(layers) == [layers |-> layers, failed |-> 0, warned |-> 0, fault |-> NoFault]

\* catch_retry_obj(func_name, func): builds _wrapper around func, then
\*   try: setattr(self.obj, func_name, _wrapper)  except: pass
catch_retry_obj(t, e, st) ==
    IF e.name \in t.frozen
    THEN [st EXCEPT !.failed = @ + 1]
    ELSE [st EXCEPT !.layers[e.name] = e.value.layers + 1]

\* Mutant: the walk wraps every entry of the list, callable or not.
RECURSIVE ObjWalk_Unfiltered(_, _, _)
ObjWalk_Unfiltered(t, entries, st) ==
    IF entries = <<>> THEN st
    ELSE ObjWalk_Unfiltered(t, Tail(entries), catch_retry_obj(t, Head(entries), st))

\* One walk of catch_class_obj over iter_func(self.obj):
\*   if not isinstance(fn, property) and callable(fn): self.catch_retry_obj(name, fn)
RECURSIVE ObjWalk(_, _, _)
ObjWalk(t, entries, st) ==
    IF entries = <<>> THEN st
    ELSE LET e == Head(entries)
         IN  ObjWalk(t, Tail(entries),
                     IF e.value.kind # "property" /\ e.value.callable
                     THEN catch_retry_obj(t, e, st) ELSE st)

\* catch_class_obj(): the walk, twice, each over a fresh member list.
catch_class_obj(t, st) ==
    LET once == ObjWalk(t, iter_func(t, FALSE, st.layers), st)
    IN  ObjWalk(t, iter_func(t, FALSE, once.layers), once)

\* _catch_retry_class(cls, name, func): builds _wrapper around func, then
\* setattr(cls, name, _wrapper), unguarded.
catch_retry_class(t, e, st) ==
    IF e.name \in t.frozen
    THEN [st EXCEPT !.failed = @ + 1, !.fault = "AttributeError"]
    ELSE [st EXCEPT !.layers[e.name] = e.value.layers + 1]

\* The inner loop of catch_class: `if callable(fn)`; an exception ends it.
RECURSIVE ClassWalk(_, _, _)
ClassWalk(t, entries, st) ==
    IF entries = <<>> \/ st.fault # NoFault THEN st
    ELSE LET e == Head(entries)
         IN  ClassWalk(t, Tail(entries),
                       IF e.value.callable THEN catch_retry_class(t, e, st) ELSE st)

\* The outer loop of catch_class over class_func_list(cls): one inner walk
\* over a fresh iter_func(cls, **kwargs) per entry.
RECURSIVE ClassLoop(_, _, _, _)
ClassLoop(t, outer, flag_property, st) ==
    IF outer = <<>> \/ st.fault # NoFault THEN st
    ELSE ClassLoop(t, Tail(outer), flag_property,
                   ClassWalk(t, iter_func(t, flag_property, st.layers), st))

catch_class(t, flag_property, st) ==
    ClassLoop(t, class_func_list(t, st.layers), flag_property, st)

NoListing == [fn |-> "none", flag_property |-> FALSE, out |-> <<>>]
NoLayers == [n \in Names |-> 0]
NoWrap == [obj_applied |-> 0, class_applied |-> 0, last |-> "none",
           failed |-> 0, warned |-> 0, fault |-> NoFault]

WrapInit ==
    /\ target = NoTarget
    /\ listing = NoListing
    /\ rebound = NoLayers
    /\ wrapout = NoWrap

\* A class is defined, or an instance of it created.
DefineTarget ==
    /\ target = NoTarget
    /\ \E t \in Targets :
          /\ t.frozen \subseteq { n \in Names : t.members[n] = "method" }
          /\ target' = t
    /\ UNCHANGED <<listing, rebound, wrapout>>
    /\ UNCHANGED notWrapVars

CallClassFuncList ==
    /\ target # NoTarget
    /\ listing' = [fn |-> "class_func_list", flag_property |-> FALSE,
                   out |-> class_func_list(target, rebound)]
    /\ UNCHANGED <<target, rebound, wrapout>>
    /\ UNCHANGED notWrapVars

CallIterFunc ==
    /\ target # NoTarget
    /\ \E flag_property \in BOOLEAN :
          listing' = [fn |-> "iter_func", flag_property |-> flag_property,
                      out |-> iter_func(target, flag_property, rebound)]
    /\ UNCHANGED <<target, rebound, wrapout>>
    /\ UNCHANGED notWrapVars

Applied == wrapout.obj_applied + wrapout.class_applied

\* Decorate(target).catch_class_obj()
ApplyCatchClassObj ==
    /\ target # NoTarget
    /\ wrapout.fault = NoFault
    /\ Applied < MaxApplied
    /\ LET st == catch_class_obj(target, WrapState(rebound))
       IN  /\ rebound' = st.layers
           /\ wrapout' = [wrapout EXCEPT !.obj_applied = @ + 1,
                                         !.last = "catch_class_obj",
                                         !.failed = st.failed,
                                         !.warned = st.warned,
                                         !.fault = st.fault]
    /\ UNCHANGED <<target, listing>>
    /\ UNCHANGED notWrapVars

\* Decorate.catch_class(target, **kwargs)
ApplyCatchClass ==
    /\ target # NoTarget
    /\ wrapout.fault = NoFault
    /\ Applied < MaxApplied
    /\ \E flag_property \in BOOLEAN :
          LET st == catch_class(target, flag_property, WrapState(rebound))
          IN  /\ rebound' = st.layers
              /\ wrapout' = [wrapout EXCEPT !.class_applied = @ + 1,
                                            !.last = "catch_class",
                                            !.failed = st.failed,
                                            !.warned = st.warned,
                                            !.fault = st.fault]
    /\ UNCHANGED <<target, listing>>
    /\ UNCHANGED notWrapVars

WrapNext ==
    \/ DefineTarget
    \/ CallClassFuncList
    \/ CallIterFunc
    \/ ApplyCatchClassObj
    \/ ApplyCatchClass

(***************************************************************************)
(* extract_exception_location (pymagic/_response.py). A traceback is the   *)
(* sequence of its entries, the outermost frame first (tb_next leads to    *)
(* the frame that raised); an exception without traceback has none.        *)
(***************************************************************************)
MaxFrames == 3
MaxSkip == 4

TbFrames ==
    { [filename |-> "a.py", lineno |-> 10, funcname |-> "outer"],
      [filename |-> "a.py", lineno |-> 20, funcname |-> "inner"],
      [filename |-> "b.py", lineno |-> 7, funcname |-> "raiser"] }

\* exception.__traceback__: the empty sequence stands for None.
Tracebacks == SeqsUpTo(TbFrames, MaxFrames)

\* The sentinel returned when no location can be given.
UnknownLocation == [filename |-> "", lineno |-> 0, funcname |-> "<unknown location>"]

\* f"{filename}:{lineno} in {funcname}" of a traceback entry.
LocationOf(tb) == [filename |-> tb.filename, lineno |-> tb.lineno, funcname |-> tb.funcname]

\* Mutant: the skip runs off the end of the chain (current_tb becomes None).
RECURSIVE SkipFrames_RunsOff(_, _, _)
SkipFrames_RunsOff(chain, cur, n) ==
    IF n = 0 \/ cur = 0 THEN cur
    ELSE SkipFrames_RunsOff(chain, IF cur < Len(chain) THEN cur + 1 ELSE 0, n - 1)

\* for _ in range(skip_frames):
\*     if current_tb and current_tb.tb_next: current_tb = current_tb.tb_next
\*     else: break
\* cur is the position of current_tb in the chain, 0 for None.
RECURSIVE SkipFrames(_, _, _)
SkipFrames(chain, cur, n) ==
    IF n <= 0 THEN cur
    ELSE IF cur # 0 /\ cur < Len(chain) THEN SkipFrames(chain, cur + 1, n - 1)
    ELSE cur

\* extract_exception_location(exception, skip_frames): the location and the
\* formatted traceback, which shows every entry of the chain.
extract_exception_location(chain, skip_frames) ==
    IF chain = <<>>
    THEN [location |-> UnknownLocation, tb_str |-> chain]
    ELSE LET current_tb == SkipFrames(chain, 1, skip_frames)
         IN  IF current_tb # 0
             THEN [location |-> LocationOf(chain[current_tb]), tb_str |-> chain]
             ELSE [location |-> UnknownLocation, tb_str |-> chain]

NoLocated ==
    [done |-> FALSE, chain |-> <<>>, skip_frames |-> 0,
     out |-> [location |-> UnknownLocation, tb_str |-> <<>>]]

LocateInit == located = NoLocated

\* A caller hands an exception and a number of frames to skip.
Locate ==
    /\ \E chain \in Tracebacks, skip_frames \in 0 .. MaxSkip :
          located' = [done |-> TRUE, chain |-> chain, skip_frames |-> skip_frames,
                      out |-> extract_exception_location(chain, skip_frames)]
    /\ UNCHANGED notLocateVars

LocateNext == Locate

(***************************************************************************)
(* Response.metadata as an object (pymagic/_response.py): `metadata or {}` *)
(* in __init__ keeps the caller's dict or makes a new one, and clear()     *)
(* empties the dict in place.                                              *)
(***************************************************************************)
MaxOutcomes == 2
MaxCells == 3

\* The Response objects and the dict objects, by identity; 0 is no object.
Outcomes == 1 .. MaxOutcomes
Cells == 1 .. MaxCells

NoDict == [live |-> FALSE, map |-> EmptyMeta]
Dict(m) == [live |-> TRUE, map |-> m]

\* A dict object that does not exist yet: `{}` or a dict literal makes it.
FreshCell == CHOOSE c \in Cells : ~dicts[c].live /\ \A b \in Cells : ~dicts[b].live => c <= b

\* bool(d) of a dict d
DictTruthy(m) == m # EmptyMeta

\* The metadata argument of Response(...): None, or the caller's dict.
MetaArgs == {"None", "caller"}

\* `metadata or {}`: the dict object the expression evaluates to, 0 standing
\* for the new empty dict that `{}` makes.
MetadataRef(arg) ==
    IF arg = "caller" /\ DictTruthy(dicts[callermap].map) THEN callermap ELSE 0

MetaInit ==
    /\ dicts = [c \in Cells |-> NoDict]
    /\ callermap = 0
    /\ owned = [r \in Outcomes |-> 0]

\* A caller builds a dict to hand over as metadata.
CallerDict ==
    /\ callermap = 0
    /\ \E m \in MetaDicts :
          dicts' = [dicts EXCEPT ![FreshCell] = Dict(m)]
    /\ callermap' = FreshCell
    /\ UNCHANGED owned
    /\ UNCHANGED notMetaVars

\* Response.__init__: self.metadata = metadata or {}
ResponseInitMetadata(r, arg) ==
    /\ owned[r] = 0
    /\ arg = "caller" => callermap # 0
    /\ IF MetadataRef(arg) # 0
       THEN /\ owned' = [owned EXCEPT ![r] = MetadataRef(arg)]
            /\ UNCHANGED dicts
       ELSE /\ owned' = [owned EXCEPT ![r] = FreshCell]
            /\ dicts' = [dicts EXCEPT ![FreshCell] = Dict(EmptyMeta)]
    /\ UNCHANGED callermap
    /\ UNCHANGED notMetaVars

\* response.metadata[key] = value, on Response object r
MetadataPut(r, k) ==
    /\ owned[r] # 0
    /\ dicts' = [dicts EXCEPT ![owned[r]].map =
                    [x \in (DOMAIN @) \cup {k} |-> "v"]]
    /\ UNCHANGED <<callermap, owned>>
    /\ UNCHANGED notMetaVars

\* Response.clear() on Response object r, as far as metadata goes:
\* self.metadata.clear()
MetadataClear(r) ==
    /\ owned[r] # 0
    /\ dicts' = [dicts EXCEPT ![owned[r]].map = EmptyMeta]
    /\ UNCHANGED <<callermap, owned>>
    /\ UNCHANGED notMetaVars

MetaNext ==
    \/ CallerDict
    \/ \E r \in Outcomes, arg \in MetaArgs : ResponseInitMetadata(r, arg)
    \/ \E r \in Outcomes, k \in MetaKeys : MetadataPut(r, k)
    \/ \E r \in Outcomes : MetadataClear(r)

RetryInit ==
    /\ phase = "new"
    /\ deco = NoDeco
    /\ plan = <<>>
    /\ stack = <<>>
    /\ inflight = NoOutcome
    /\ trace = <<>>
    /\ logs = <<>>

(***************************************************************************)
(* The wrappers' specification.                                            *)
(***************************************************************************)
RetryNext ==
    \/ DecorateCatch
    \/ DecorateCatchRetry
    \/ EngineInit
    \/ CatchClass
    \/ CatchRetryObj
    \/ CatchClassObj
    \/ CallWrapped
    \/ WrapperInvoke
    \/ WrapperExhausted
    \/ WrapperResume
    \/ WrapperAfterFault
    \/ WrapperSleep
    \/ CatchInvoke
    \/ CatchResume

RetrySpecInit == RetryInit /\ GuardInit /\ LockInit /\ OutcomeInit /\ WrapInit /\ LocateInit /\ MetaInit

GuardSpecInit == RetryInit /\ GuardInit /\ LockInit /\ OutcomeInit /\ WrapInit /\ LocateInit /\ MetaInit

LockSpecInit == RetryInit /\ GuardInit /\ LockInit /\ OutcomeInit /\ WrapInit /\ LocateInit /\ MetaInit

OutcomeSpecInit == RetryInit /\ GuardInit /\ LockInit /\ OutcomeInit /\ WrapInit /\ LocateInit /\ MetaInit

WrapSpecInit == RetryInit /\ GuardInit /\ LockInit /\ OutcomeInit /\ WrapInit /\ LocateInit /\ MetaInit

LocateSpecInit == RetryInit /\ GuardInit /\ LockInit /\ OutcomeInit /\ WrapInit /\ LocateInit /\ MetaInit

MetaSpecInit == RetryInit /\ GuardInit /\ LockInit /\ OutcomeInit /\ WrapInit /\ LocateInit /\ MetaInit

SpecRetry == RetrySpecInit /\ [][RetryNext]_vars

SpecGuard == GuardSpecInit /\ [][GuardNext]_vars

SpecLock == LockSpecInit /\ [][LockNext]_vars
SpecShared == LockSpecInit /\ [][SharedNext]_vars
SpecLockFair == LockSpecInit /\ [][ProgressNext]_vars /\ ProgressFairness

SpecOutcome == OutcomeSpecInit /\ [][OutcomeNext]_vars

SpecWrap == WrapSpecInit /\ [][WrapNext]_vars

SpecLocate == LocateSpecInit /\ [][LocateNext]_vars

SpecMeta == MetaSpecInit /\ [][MetaNext]_vars

(***************************************************************************)
(* Properties of the retry wrappers.                                       *)
(***************************************************************************)
RetryKind == deco.kind \in {"catch_retry", "obj"}

\* The wrapped callable is a function or a method: it carries the __name__
\* the handlers put in their log message.
WrapsFunction == deco.named

\* The fault kinds a wrapper is documented to handle: every Exception for the
\* retry wrappers, the `exception` argument for Decorate.catch.
MatchedSet == IF deco.kind = "catch" THEN deco.exception ELSE "Exception"

IsMatchedFault(o) == o.t = "raise" /\ MatchedSet \in Mro(o.kind)
IsUnmatchedFault(o) == o.t = "raise" /\ MatchedSet \notin Mro(o.kind)

\* The callable raises a matched fault on each of its first m invocations.
FaultsUpTo(m) == \A i \in 1 .. m : IsMatchedFault(PlanAt(plan, i))

\* Calls and sleeps alternate, starting with a call.
Alternating(tr) ==
    \A i \in 1 .. Len(tr) : tr[i].op = IF i % 2 = 1 THEN "call" ELSE "sleep"

NoFallbackConfigured == ~deco.configured

Exhausting ==
    /\ Done /\ RetryKind /\ FrameRetryNum >= 1 /\ FaultsUpTo(FrameRetryNum)

\* C3 as stated: on exhaustion without a fallback the last fault observed
\* propagates to the caller and no value is returned.
C3_Original ==
    (Exhausting /\ NoFallbackConfigured) =>
        /\ inflight.t = "raise"
        /\ inflight.kind = PlanAt(plan, FrameRetryNum).kind
        /\ inflight.msg = PlanAt(plan, FrameRetryNum).msg

\* C3, amended. On exhaustion without a configured fallback no fault of the
\* callable propagates: the call returns the default err_return, False (the
\* decorated function object when catch_retry was applied bare). The loop
\* gets as far as exhaustion when the handler can read the __name__ of what
\* it called, that is for a function and for anything under two layers; a
\* callable without __name__ under a single layer ends the call at its first
\* matched fault, with the handler's AttributeError and nothing returned.
C3_ExhaustedReturnsDefault ==
    (Exhausting /\ NoFallbackConfigured) =>
        /\ (WrapsFunction \/ deco.layers > 1) =>
              inflight = Returned(IF deco.bare THEN FuncObject ELSE "False",
                                  "fallback")
        /\ (~WrapsFunction /\ deco.layers = 1) =>
              (inflight = NoNameFault /\ Calls = 1 /\ Sleeps = 0 /\ logs = <<>>)

\* Reached: two failed attempts of a function, no fallback configured, False
\* returned.
C3_Witness ==
    /\ Exhausting /\ NoFallbackConfigured /\ FrameRetryNum = 2
    /\ WrapsFunction /\ deco.layers = 1
    /\ ~deco.bare /\ inflight.t = "ret" /\ inflight.v = "False"
    /\ Calls = 2

LastCallUnmatched == Calls >= 1 /\ IsUnmatchedFault(PlanAt(plan, Calls))

\* C5. Unmatched faults: in every wrapper (catch, catch_retry, the engine's
\* catch_retry_obj layers) a fault outside the matched set propagates to the
\* caller from the attempt that raised it: the callable is not invoked again,
\* nothing sleeps after it, no frame's remaining-attempts counter is
\* decremented for it and no fallback is returned. (Which frame counted the
\* matched faults that came before it is stated for a function.)
C5_UnmatchedPropagates ==
    (phase = "running" /\ LastCallUnmatched) =>
        /\ inflight = PlanAt(plan, Calls)
        /\ inflight.via = "func"
        /\ trace[Len(trace)] = CallEvent
        /\ Sleeps = Calls - 1
        /\ Len(logs) = Calls - 1
        /\ \A d \in 1 .. Len(stack) :
              /\ stack[d].pc = "call"
              /\ (RetryKind /\ WrapsFunction) =>
                    stack[d].retry_num =
                        FrameRetryNum - (IF d = deco.layers /\ FrameRetryNum >= 1
                                         THEN Calls - 1 ELSE 0)

\* Reached: the second attempt raised KeyboardInterrupt, which reached the
\* caller of a retry wrapper with attempts to spare.
C5_Witness ==
    /\ Done /\ RetryKind /\ WrapsFunction /\ FrameRetryNum = 3 /\ Calls = 2
    /\ inflight = Raised("KeyboardInterrupt", "m3")

BackoffFactor == Get(deco.d_kwargs, "backoff_factor", 1)

RECURSIVE Pow(_, _)
Pow(b, e) == IF e = 0 THEN 1 ELSE b * Pow(b, e - 1)

\* The durations of the sleeps of the call, in order.
RECURSIVE SleepDurations(_)
SleepDurations(tr) ==
    IF tr = <<>> THEN <<>>
    ELSE IF tr[1].op = "sleep" THEN <<tr[1].d>> \o SleepDurations(Tail(tr))
         ELSE SleepDurations(Tail(tr))

\* C7 as stated: the i-th sleep of a call lasts
\* initialDelay * backoffFactor^(i-1).
C7_Original ==
    (phase = "running" /\ RetryKind) =>
        \A i \in 1 .. Len(SleepDurations(trace)) :
            SleepDurations(trace)[i] = FrameSleepTime * Pow(BackoffFactor, i - 1)

\* C7, amended. The delay is constant: every sleep of a call lasts the
\* configured sleep_time, whatever backoff factor the caller passed; no
\* multiplication happens between retries.
C7_ConstantDelay ==
    (phase = "running" /\ RetryKind) =>
        \A i \in 1 .. Len(SleepDurations(trace)) :
            SleepDurations(trace)[i] = FrameSleepTime

\* Reached: a call built with backoff_factor = 2 and sleep_time = 1 slept
\* twice, one second each.
C7_Witness ==
    /\ phase = "running" /\ deco.kind = "catch_retry" /\ BackoffFactor = 2
    /\ SleepDurations(trace) = <<1, 1>>

(***************************************************************************)
(* Properties of the timeout guard.                                        *)
(***************************************************************************)
GuardDone(c) == gcall[c].pc = "done"

\* The worker of call c returns a value, at the instant it is started.
ReturnsImmediately(c) ==
    /\ thread[c].work.t = "ret"
    /\ ~thread[c].hangs
    /\ thread[c].finish = gcall[c].start

\* The worker of call c has not finished when the limit elapses.
UnfinishedAtLimit(c) ==
    thread[c].hangs \/ thread[c].finish > gcall[c].start + guard.limit

\* C8 as stated: for every limit > 0 and every callable that returns
\* immediately (the guard looks at the thread only after that), the guarded
\* call returns the callable's real return value, whatever it is, not the
\* fallback, and logs no timeout warning.
C8_Original ==
    \A c \in GuardCalls :
        (GuardDone(c) /\ ReturnsImmediately(c) /\ gcall[c].wake > gcall[c].start) =>
            /\ gcall[c].ret = Returned(thread[c].work.v, "func")
            /\ warnings[c] = 0

\* C9 as stated: if the worker has not finished when the limit elapses, the
\* guarded call logs one warning and returns the configured fallback; the
\* worker is not cancelled, and when it completes later it changes neither
\* the value already returned nor anything of another guarded call.
C9_Original ==
    /\ [](\A c \in GuardCalls :
            (GuardDone(c) /\ UnfinishedAtLimit(c)) =>
                /\ gcall[c].ret = Returned(guard.err_result, "fallback")
                /\ warnings[c] = 1)
    /\ [][\A c \in GuardCalls :
            /\ GuardDone(c) => gcall'[c] = gcall[c]
            /\ (thread[c].state = "running" /\ thread'[c].state # "running") =>
                  /\ gcall' = gcall
                  /\ \A o \in GuardCalls \ {c} : thread'[o] = thread[o]]_vars

\* C10 as stated: the caller polls in slices of at most 0.5 time units until
\* its cumulative wait reaches limit; the fallback is returned only if the
\* worker has not finished by time limit after its start, and a worker that
\* finishes at any time t < limit has its result returned.
C10_Original ==
    \A c \in GuardCalls :
        /\ gcall[c].pc \in {"slice", "final"} => gcall[c].wake - now <= SliceTicks
        /\ (GuardDone(c) /\ gcall[c].ret.via = "fallback") =>
              /\ now - gcall[c].start >= guard.limit
              /\ thread[c].hangs \/ thread[c].work.t # "ret"
                    \/ thread[c].finish >= gcall[c].start + guard.limit
        /\ (GuardDone(c) /\ thread[c].work.t = "ret" /\ ~thread[c].hangs
                /\ thread[c].finish < gcall[c].start + guard.limit) =>
              gcall[c].ret = Returned(thread[c].work.v, "func")

\* The worker of call c raises a fault before the limit elapses.
FaultsWithinLimit(c) ==
    /\ thread[c].work.t = "raise"
    /\ ~thread[c].hangs
    /\ thread[c].finish <= gcall[c].start + guard.limit

\* The whole wait of a guarded call: every slice and the last sleep.
FullWait == SleepNum * SliceTicks + SleepNums

\* C11 as stated: if the worker raises a fault within the limit and no
\* fallback is configured, the guarded call propagates that fault to the
\* caller; it does not report a timeout and does not return a fallback.
C11_Original ==
    \A c \in GuardCalls :
        (GuardDone(c) /\ FaultsWithinLimit(c) /\ guard.err_result = "None") =>
            /\ gcall[c].ret.t = "raise"
            /\ gcall[c].ret.kind = thread[c].work.kind
            /\ gcall[c].ret.msg = thread[c].work.msg
            /\ warnings[c] = 0

\* The guarded callable is a function: it carries the __name__ the timeout
\* warning puts in its message.
GuardsFunction == guard.named

\* C11, amended. A fault of the worker never reaches the caller: it ends the
\* worker thread and the thread's result stays None, so the guarded call
\* sleeps its whole wait and takes the timeout path: for a function it logs
\* one timeout warning and returns err_result, which is None when no
\* fallback is configured; for a callable without __name__ the warning's
\* message cannot be built and the AttributeError of that, not the worker's
\* fault, reaches the caller, with nothing logged.
C11_WorkerFaultReturnsFallback ==
    \A c \in GuardCalls :
        (GuardDone(c) /\ FaultsWithinLimit(c)) =>
            /\ gcall[c].wake = gcall[c].start + FullWait
            /\ get_result(thread[c]) = "None"
            /\ GuardsFunction =>
                  /\ gcall[c].ret = Returned(guard.err_result, "fallback")
                  /\ warnings[c] = 1
            /\ ~GuardsFunction =>
                  /\ gcall[c].ret = NoNameFault
                  /\ warnings[c] = 0

\* Reached: the worker raised ValueError before the limit, no fallback was
\* configured, and the caller got None with one timeout warning.
C11_Witness ==
    \E c \in GuardCalls :
        /\ GuardDone(c) /\ FaultsWithinLimit(c) /\ guard.err_result = "None"
        /\ GuardsFunction
        /\ thread[c].work = Raised("ValueError", "m1")
        /\ thread[c].finish < gcall[c].wake
        /\ gcall[c].ret = Returned("None", "fallback")
        /\ warnings[c] = 1

\* C12. Bounded wait: for every limit and every callable, one that never
\* returns included, the guarded call gives control back to its caller after
\* at most limit plus one polling slice of waiting: no sleep ends later than
\* that, the clock never passes a sleeping caller's wake-up instant, and the
\* call is over at the end of its last sleep.
C12_BoundedWait ==
    \A c \in GuardCalls :
        /\ gcall[c].pc # "idle" =>
              /\ gcall[c].wake - gcall[c].start <= guard.limit + SliceTicks
              /\ gcall[c].wake - gcall[c].start <= FullWait
        /\ gcall[c].pc \in {"slice", "final"} => now <= gcall[c].wake
        /\ gcall[c].pc = "read" => now = gcall[c].wake

\* Reached: a callable that never returns; the guarded call waited longer
\* than the limit, within one slice more, and returned the fallback.
C12_Witness ==
    \E c \in GuardCalls :
        /\ GuardDone(c) /\ thread[c].hangs
        /\ gcall[c].wake - gcall[c].start > guard.limit
        /\ gcall[c].ret.via = "fallback"

BodyFrames(t) == { i \in 1 .. Len(tstack[t]) : tstack[t][i].pc = "body" }

InBody(t) == BodyFrames(t) # {}

\* The invocation that ended last was a call of a singleton wrapper that
\* returned an object.
SingletonReturned == last.out.t = "ret" /\ last.out.via = "registry"

\* C13 as stated: for any number of threads and any interleaving of calls of
\* the same singleton-wrapped type, the constructor completes at most once and
\* every call returns that one instance; once registered, the entry is never
\* removed or replaced, whatever arguments later calls pass.
C13_Original ==
    /\ [](\A cls \in SingletonOps :
            /\ constructed[cls] <= 1
            /\ (SingletonReturned /\ last.obj.cls = cls) =>
                  last.obj = instances[cls])
    /\ [][\A cls \in SingletonOps :
            instances[cls] # NoInstance => instances'[cls] = instances[cls]]_vars

\* C14. Mutual exclusion: in every reachable state at most one thread is
\* inside the body of a synchronized-wrapped operation or a singleton
\* construction, whatever the operations are, and that thread owns the lock.
C14_MutualExclusion ==
    /\ Cardinality({ t \in Threads : InBody(t) }) <= 1
    /\ \A t \in Threads : InBody(t) => lock.owner = t
    /\ \A t, u \in Threads :
          (InBody(t) /\ u # t /\ tstack[u] # <<>>) =>
              /\ Len(tstack[u]) = 1
              /\ tstack[u][1].pc = "acquire"

\* Reached: one thread is inside f while the other waits for the lock to
\* enter g.
C14_Witness ==
    \E t, u \in Threads :
        /\ t # u
        /\ tstack[t] # <<>> /\ tstack[t][1].op = "f" /\ tstack[t][1].pc = "body"
        /\ tstack[u] # <<>> /\ tstack[u][1].op = "g" /\ tstack[u][1].pc = "acquire"

\* C15. Reentrancy: a thread that is inside a synchronized-wrapped operation
\* or a singleton construction and calls the same or another wrapped
\* operation is not blocked by its own hold: it can take the lock again, at
\* every nesting depth, and holds it once per body it is in.
C15_Reentrant ==
    \A t \in Threads :
        /\ (Len(tstack[t]) >= 2 /\ TopOf(t).pc = "acquire") =>
              /\ ENABLED (SyncEnter(t) \/ SingletonEnter(t))
              /\ HoldCount(lock, t) = Len(tstack[t]) - 1
        /\ InBody(t) => HoldCount(lock, t) = Cardinality(BodyFrames(t))

\* Reached: a thread constructing the singleton A called f, and f called f
\* again: three bodies deep, the lock held three times.
C15_Witness ==
    \E t \in Threads :
        /\ Len(tstack[t]) = 3
        /\ tstack[t][1].op = "A" /\ tstack[t][2].op = "f" /\ tstack[t][3].op = "f"
        /\ \A i \in 1 .. 3 : tstack[t][i].pc = "body"
        /\ lock = [owner |-> t, count |-> 3]

\* C16. Release: after every invocation of a wrapped operation, whether it
\* returned or propagated a fault, the calling thread holds the lock as many
\* times as before the invocation; the wrapper's outcome is the body's,
\* unchanged, and a thread that is in no wrapper does not hold the lock.
C16_Released ==
    /\ last.out.t # "none" =>
          /\ last.delta = 0
          /\ last.out = last.body
    /\ \A t \in Threads :
          /\ tstack[t] = <<>> => HoldCount(lock, t) = 0
          /\ HoldCount(lock, t) = Cardinality(BodyFrames(t))

\* Reached: the body of a wrapped operation raised KeyboardInterrupt, which
\* left the wrapper; no thread is in a wrapper any more and the lock is free.
C16_Witness ==
    /\ last.out.t = "raise" /\ last.out.kind = "KeyboardInterrupt"
    /\ last.body.t = "raise" /\ last.body.kind = "KeyboardInterrupt"
    /\ last.delta = 0
    /\ lock = FreeLock
    /\ \A t \in Threads : tstack[t] = <<>>

\* Thread t is in the constructor of a singleton-wrapped type, and in this
\* step the constructor raises and the fault leaves the wrapper.
CtorFailure(t) ==
    /\ tstack[t] # <<>>
    /\ TopOf(t).pc = "body" /\ TopOf(t).op \in SingletonOps
    /\ tstack' = PopOf(t)
    /\ last'.body.t = "raise"

\* C35 as stated: when the constructor raises during a singleton call that
\* found no entry for the type, the fault propagates to the caller, no entry
\* is registered for the type, the caller's hold of the lock is given back,
\* and a later call enters the constructor again; a registered entry is
\* always a completed construction.
C35_Original ==
    /\ [][\A t \in Threads :
            CtorFailure(t) =>
                /\ last'.out = last'.body
                /\ last'.delta = 0
                /\ instances'[TopOf(t).op] = NoInstance]_vars
    /\ [](\A cls \in SingletonOps :
            instances[cls] # NoInstance =>
                /\ instances[cls].cls = cls
                /\ instances[cls].serial \in 1 .. constructed[cls])

\* Thread t is executing the constructor of a singleton-wrapped type, or the
\* body of a synchronized-wrapped operation.
InCtor(t) ==
    \E i \in BodyFrames(t) : tstack[t][i].op \in SingletonOps

InSync(t) ==
    \E i \in BodyFrames(t) : tstack[t][i].op \in SyncOps

\* C36. Shared lock: while a thread is executing the constructor of a
\* singleton-wrapped type no other thread is inside a synchronized-wrapped
\* operation or inside the constructor of that or another singleton type,
\* and while a thread is inside a synchronized-wrapped operation no other
\* thread is executing a singleton constructor.
C36_SharedLock ==
    \A t, u \in Threads :
        t # u =>
            /\ InCtor(t) => ~InSync(u) /\ ~InCtor(u)
            /\ InSync(t) => ~InCtor(u)

\* Reached: one thread is constructing A, from inside f, while the other has
\* called the wrapper of B and waits for the lock.
C36_Witness ==
    \E t, u \in Threads :
        /\ t # u
        /\ Len(tstack[t]) = 2
        /\ tstack[t][1].op = "f" /\ tstack[t][1].pc = "body"
        /\ tstack[t][2].op = "A" /\ tstack[t][2].pc = "body"
        /\ Len(tstack[u]) = 1
        /\ tstack[u][1].op = "B" /\ tstack[u][1].pc = "acquire"
        /\ ~ENABLED SingletonEnter(u)

\* Some thread is in a wrapper.
SomeCall == \E t \in Threads : tstack[t] # <<>>

\* Some thread that is in a wrapper can take its next step.
SomeStep ==
    ENABLED (\E t \in Threads :
                \/ LockEnter(t)
                \/ SyncExit(t) \/ SingletonConstructed(t) \/ SingletonFails(t))

\* C37. Lock progress: no reachable state is a deadlock (whenever a thread is
\* in a wrapper, waiting for the lock or in a body, some thread can take a
\* step), and with fair acquisition of the lock and bodies that terminate
\* every call of every thread ends, by a return or a fault, and a lock that
\* is held becomes free.
C37_Progress ==
    /\ [](SomeCall => SomeStep)
    /\ \A t \in Threads : (tstack[t] # <<>>) ~> (tstack[t] = <<>>)
    /\ (lock # FreeLock) ~> (lock = FreeLock)

\* Reached: one thread is two bodies deep, a constructor called from f, and
\* holds the lock twice, while the other waits for the lock and cannot take
\* it.
C37_Witness ==
    \E t, u \in Threads :
        /\ t # u
        /\ Len(tstack[t]) = 2
        /\ tstack[t][1].op = "f" /\ tstack[t][2].op = "A"
        /\ \A i \in 1 .. 2 : tstack[t][i].pc = "body"
        /\ lock = [owner |-> t, count |-> 2]
        /\ tstack[u] # <<>> /\ TopOf(u).pc = "acquire"
        /\ ~ENABLED LockEnter(u)

(***************************************************************************)
(* Properties of Response.                                                 *)
(***************************************************************************)
HasResponse == rhist.origin # "none"

\* The Response object is the one the last execute returned: its callable is
\* rhist.f.
Executed == rhist.origin = "execute"

\* C17 as stated: in every reachable state of a Response, after construction,
\* execute, clear() or metadata writes, exception is not None if and only if
\* success is False.
C17_Original ==
    HasResponse => ((resp.exception # NoException) <=> (resp.success = FALSE))

\* C17, amended. An outcome returned by execute has an exception if and only
\* if success is False, and metadata writes keep that; clear() drops the
\* exception and leaves success, so from then on a failed outcome has
\* success False and no exception, and only "an exception implies success is
\* False" remains of the equivalence.
C17_ExecuteInvariant ==
    Executed =>
        /\ rhist.clears = 0 =>
              ((resp.exception # NoException) <=> (resp.success = FALSE))
        /\ rhist.clears > 0 => resp.exception = NoException
        /\ resp.exception # NoException => resp.success = FALSE
        /\ resp.success = (rhist.f.out.t = "ret")

\* Reached: a failed execute, a metadata write, then clear(): success is
\* still False and the exception is gone.
C17_Witness ==
    /\ Executed /\ rhist.f.out = Raised("ValueError", "m1")
    /\ rhist.op = "clear" /\ rhist.clears = 1
    /\ rhist.prev.exception = ExceptionOf(Raised("ValueError", "m1"))
    /\ rhist.prev.metadata # EmptyMeta
    /\ resp.success = FALSE /\ resp.exception = NoException

\* C18 as stated: for a callable that returns v, execute returns a Response
\* with success True, result v, no exception, an end instant not before the
\* start instant, and execution_time > 0 even when the measured duration is
\* zero.
C18_Original ==
    (Executed /\ rhist.op = "execute" /\ rhist.f.out.t = "ret") =>
        /\ rescaped = NoOutcome
        /\ resp.success = TRUE
        /\ resp.result = rhist.f.out.v
        /\ resp.exception = NoException
        /\ resp.start_time.some /\ resp.end_time.some
        /\ resp.end_time.at >= resp.start_time.at
        /\ resp.end_time.at - resp.start_time.at = rhist.f.dur
        /\ resp.execution_time > 0
        /\ resp.execution_time >= Epsilon
        /\ resp.metadata = EmptyMeta

\* The last operation was a run of execute, which returned a Response or
\* raised; rhist.f is the callable it was given.
ExecuteRan == rhist.op = "execute"

\* C19 as stated, for a callable that raises an Exception E (the faults the
\* handler of execute is written for): execute propagates nothing; it returns
\* a Response with success False, result None, the exception E with its kind
\* and message, and execution_time > 0.
C19_Original ==
    (ExecuteRan /\ rhist.f.out.t = "raise" /\ "Exception" \in Mro(rhist.f.out.kind)) =>
        /\ rescaped = NoOutcome
        /\ Executed
        /\ resp.success = FALSE
        /\ resp.result = "None"
        /\ resp.exception = ExceptionOf(rhist.f.out)
        /\ resp.execution_time > 0

\* C20. clear() is idempotent and frames the rest: from any state of a
\* Response one clear() gives result None, exception None and an empty
\* metadata dict and leaves success, start_time, end_time and execution_time
\* as they were; a second clear() gives exactly the state the first gave.
C20_ClearIdempotent ==
    rhist.op = "clear" =>
        /\ resp.result = "None"
        /\ resp.exception = NoException
        /\ resp.metadata = EmptyMeta
        /\ resp.success = rhist.prev.success
        /\ resp.start_time = rhist.prev.start_time
        /\ resp.end_time = rhist.prev.end_time
        /\ resp.execution_time = rhist.prev.execution_time
        /\ rhist.prevop = "clear" => resp = rhist.prev

\* Reached: the Response of a failed execute was cleared twice in a row; the
\* second clear() changed nothing and the outcome still reports the failure
\* and its timing.
C20_Witness ==
    /\ Executed /\ rhist.f.out.t = "raise" /\ rhist.f.dur = 123
    /\ rhist.op = "clear" /\ rhist.prevop = "clear" /\ rhist.clears = 2
    /\ resp = rhist.prev
    /\ resp.success = FALSE /\ resp.exception = NoException
    /\ resp.execution_time = 120 /\ resp.end_time.some

(***************************************************************************)
(* Properties of the auto-decoration engine and of bare decorator use.     *)
(***************************************************************************)
EngineKind == deco.kind \in {"obj", "class"}

\* C21 as stated: in every wrapper (catch, catch_retry, the layers of the
\* engine in its instance and class form) an exception on its way to the
\* caller is the one the undecorated callable raised in its latest
\* invocation, with the same class and message; what reaches the caller is
\* never a fault the wrapper's except clause matches.
C21_Original ==
    (phase = "running" /\ inflight.t = "raise") =>
        /\ Calls >= 1
        /\ PlanAt(plan, Calls).t = "raise"
        /\ inflight.kind = PlanAt(plan, Calls).kind
        /\ inflight.msg = PlanAt(plan, Calls).msg
        /\ Done => IsUnmatchedFault(inflight)

\* The callable raises a matched fault on every invocation.
AlwaysFaults == \A i \in 1 .. Len(plan) : IsMatchedFault(plan[i])

\* C22 as stated: after the engine wrapped a target, in its instance form
\* or in its class form, a call of a wrapped operation whose original
\* returns v yields v, whatever v is; a call of one whose original always
\* raises a matched fault yields the fallback; and no call yields any value
\* but these two.
C22_Original ==
    (Done /\ EngineKind) =>
        /\ PlanAt(plan, Calls).t = "ret" =>
              (inflight.t = "ret" /\ inflight.v = PlanAt(plan, Calls).v)
        /\ AlwaysFaults => (inflight.t = "ret" /\ inflight.v = deco.err_return)
        /\ inflight.t = "ret" =>
              \/ inflight.v = deco.err_return
              \/ PlanAt(plan, Calls).t = "ret" /\ inflight.v = PlanAt(plan, Calls).v

\* The first invocation of the original raised a matched fault.
FirstFaulted == Calls >= 1 /\ IsMatchedFault(PlanAt(plan, 1))

\* C23 as stated: with retry_num <= 1, zero and negative values included,
\* an engine-wrapped operation whose original raises a matched fault invokes
\* the original once, logs, never sleeps and returns the fallback.
C23_Original ==
    (phase = "running" /\ deco.kind = "obj" /\ deco.retry_num <= 1
        /\ FirstFaulted) =>
            /\ Calls = 1
            /\ Sleeps = 0
            /\ Done => (Len(logs) = 1 /\ inflight = Returned(deco.err_return, "fallback"))

\* C23, amended. The engine is single-shot exactly when retry_num = 1: the
\* original is invoked once, one record is logged, nothing sleeps and the
\* call returns err_return. With retry_num < 1 (zero or negative) the
\* wrapped operation retries forever: it never returns err_return, sleeps
\* sleep_time after every matched fault and ends only with an attempt that
\* returns or raises an unmatched fault. Both hold when the handler can read
\* the __name__ of what it called, that is for a function and for anything
\* under two layers; a callable without __name__ under a single layer is
\* invoked once whatever retry_num is, and its matched fault ends the call
\* with the handler's AttributeError, unlogged.
C23_SingleShotOnlyAtOne ==
    (phase = "running" /\ deco.kind = "obj") =>
        /\ (deco.retry_num = 1 /\ FirstFaulted
                /\ (WrapsFunction \/ deco.layers > 1)) =>
              /\ Calls = 1
              /\ Sleeps = 0
              /\ Len(logs) <= 1
              /\ Done => /\ Len(logs) = 1
                         /\ inflight = Returned(deco.err_return, "fallback")
        /\ (deco.retry_num < 1 /\ (WrapsFunction \/ deco.layers > 1)) =>
              /\ inflight.via # "fallback"
              /\ \A i \in 1 .. Len(trace) :
                    trace[i].op = "sleep" => trace[i].d = deco.sleep_time
              /\ Done => /\ Calls >= 1
                         /\ ~IsMatchedFault(PlanAt(plan, Calls))
                         /\ FaultsUpTo(Calls - 1)
                         /\ Sleeps = Calls - 1
                         /\ Len(logs) = Calls - 1
        /\ (deco.retry_num <= 1 /\ ~WrapsFunction /\ deco.layers = 1) =>
              /\ inflight.via # "fallback"
              /\ Calls <= 1 /\ Sleeps = 0 /\ logs = <<>>
              /\ Done => inflight = IF IsMatchedFault(PlanAt(plan, 1))
                                    THEN NoNameFault
                                    ELSE PlanAt(plan, 1)

\* Reached: an engine built with retry_num = 0 met two matched faults, slept
\* after each and returned the value of the third attempt.
C23_Witness ==
    /\ Done /\ deco.kind = "obj" /\ deco.retry_num = 0 /\ deco.layers = 2
    /\ FirstFaulted /\ FaultsUpTo(2)
    /\ Calls = 3 /\ Sleeps = 2 /\ Len(logs) = 2
    /\ inflight.t = "ret" /\ inflight.via = "func"

\* The decorator was applied bare: @Decorate.catch or @Decorate.catch_retry
\* without a call, so that the function arrives as the first argument.
BareUse == deco.kind \in {"catch", "catch_retry"} /\ deco.bare

\* C28 as stated: a function decorated bare returns its own value when it
\* succeeds and the default fallback False when it raises a matched fault,
\* after the default single attempt.
C28_Original ==
    (Done /\ BareUse /\ Calls >= 1) =>
        /\ Calls = 1
        /\ Sleeps = 0
        /\ PlanAt(plan, 1).t = "ret" => inflight = PlanAt(plan, 1)
        /\ IsMatchedFault(PlanAt(plan, 1)) =>
              (inflight.t = "ret" /\ inflight.v = DEFAULT_VALUE)

\* C30. Effective attempts of an engine-wrapped object: an object wrapped
\* as Base.__init__ does, Decorate(obj, retry_num = n, err_return = r)
\* .catch_class_obj() with n >= 1, carries two wrapper layers on each method;
\* a call of a method whose body always raises a matched fault invokes the
\* body exactly n times, sleeps exactly n-1 times, logs n records and
\* returns r. Only the innermost layer counts attempts down: the outer layer
\* sees err_return come back as a normal return and never retries.
C30_EffectiveAttempts ==
    (phase = "running" /\ deco.kind = "obj" /\ deco.layers = 2
        /\ WrapsFunction /\ deco.retry_num >= 1 /\ FaultsUpTo(deco.retry_num)) =>
            /\ Calls <= deco.retry_num
            /\ Sleeps <= deco.retry_num - 1
            /\ Len(logs) <= Calls
            /\ stack # <<>> => stack[1].retry_num = deco.retry_num
            /\ Done => /\ Calls = deco.retry_num
                       /\ Sleeps = deco.retry_num - 1
                       /\ Len(logs) = deco.retry_num
                       /\ inflight = Returned(deco.err_return, "fallback")

\* Reached: two layers, retry_num = 3 and err_return = 'fb': three
\* invocations of the body, two sleeps, 'fb' returned.
C30_Witness ==
    /\ Done /\ deco.kind = "obj" /\ deco.layers = 2 /\ deco.retry_num = 3
    /\ WrapsFunction
    /\ deco.err_return = "'fb'" /\ FaultsUpTo(3)
    /\ Calls = 3 /\ Sleeps = 2 /\ Len(logs) = 3
    /\ inflight = Returned("'fb'", "fallback")

(***************************************************************************)
(* Properties of the enumerators and of the engine's rebinding.            *)
(***************************************************************************)
ListedNames == { listing.out[i].name : i \in 1 .. Len(listing.out) }

\* The public names of the target that are methods.
PublicMethods(t) ==
    { n \in Names : ~StartsWithUnderscore(n) /\ t.members[n] = "method" }

\* C24 as stated: for every target, instance or class, the list an
\* enumerator (class_func_list, Decorate.iter_func) returns holds no name
\* that starts with an underscore and no name of a property.
C24_Original ==
    listing.fn # "none" =>
        \A n \in ListedNames :
            /\ ~StartsWithUnderscore(n)
            /\ target.members[n] # "property"

\* C25 as stated: for a class or an object the enumerator returns a pair
\* for exactly the public, non-property names whose value is callable: no
\* non-callable attribute is listed, and a target with public methods never
\* gets an empty list.
C25_Original ==
    (listing.fn # "none" /\ ~listing.flag_property) =>
        /\ ListedNames = PublicMethods(target)
        /\ \A i \in 1 .. Len(listing.out) : listing.out[i].value.callable
        /\ PublicMethods(target) # {} => listing.out # <<>>

\* C26 as stated: when the rebinding of a member fails during a wrap, the
\* engine logs a warning for that member, skips it and rebinds every other
\* capability; the wrap itself never propagates the fault, in the instance
\* form and in the class form.
C26_Original ==
    (wrapout.last # "none" /\ wrapout.failed >= 1) =>
        /\ wrapout.fault = NoFault
        /\ wrapout.warned = wrapout.failed
        /\ \A n \in PublicMethods(target) \ target.frozen : rebound[n] >= 1

\* C29 as stated: each application of the engine's wrap (catch_class_obj,
\* catch_class) puts exactly one more wrapper layer on every capability:
\* after k applications every public operation is k layers deep.
C29_Original ==
    (wrapout.last # "none" /\ wrapout.fault = NoFault) =>
        \A n \in PublicMethods(target) \ target.frozen : rebound[n] = Applied

(***************************************************************************)
(* Properties of Response comparison.                                      *)
(***************************************************************************)
\* The value on the right-hand side of the last comparison.
OtherResult == IF rcmp.other.isresp THEN rcmp.other.r.result ELSE rcmp.other.v

\* C27. Equality and truthiness delegate to the value: a Response equals
\* another Response exactly when their results are equal, whatever success,
\* exception, timing and metadata are; it equals a value that is no Response
\* exactly when its result equals that value; != gives the negation of ==;
\* and the Response is truthy exactly when its result is.
C27_ValueDelegation ==
    rcmp.done =>
        /\ rcmp.eq = PyEq(resp.result, OtherResult)
        /\ rcmp.ne = ~rcmp.eq
        /\ rcmp.truth = Truthy(resp.result)

\* Reached: a successful Response with result 0 and no exception compared
\* equal to a failed one with result False, a TypeError and metadata; it is
\* falsy.
C27_Witness ==
    /\ rcmp.done /\ rcmp.other.isresp
    /\ resp.success /\ ~rcmp.other.r.success
    /\ resp.exception # rcmp.other.r.exception
    /\ resp.metadata # rcmp.other.r.metadata
    /\ resp.result = "0" /\ rcmp.other.r.result = "False"
    /\ rcmp.eq /\ ~rcmp.ne /\ ~rcmp.truth

\* The names the engine must leave alone: underscore names, properties and
\* public attributes that are not callable.
NotCapabilities(t) ==
    { n \in Names : StartsWithUnderscore(n) \/ t.members[n] # "method" }

\* C31. Wrap frame condition: applying the engine to a target, in either
\* form and any number of times, rebinds only its public callable members:
\* no wrapper is ever bound under a name that starts with an underscore,
\* under a property or under a public attribute that is not callable.
C31_WrapFrame ==
    \A n \in NotCapabilities(target) : rebound[n] = 0

\* Reached: an instance with a method, a plain attribute, a property and its
\* underscore members went through catch_class_obj: the method carries two
\* layers, everything else none.
C31_Witness ==
    /\ target.form = "instance" /\ wrapout.last = "catch_class_obj"
    /\ target.members[<<"a">>] = "method"
    /\ target.members[<<"b">>] = "data"
    /\ target.members[<<"c">>] = "property"
    /\ target.members[DunderCall] = "method"
    /\ rebound[<<"a">>] = 2
    /\ \A n \in Names \ {<<"a">>} : rebound[n] = 0

\* C32 as stated: an execute call whose callable raises emits exactly one
\* log record, at error level; one whose callable returns emits none. (Stated
\* here for callables that raise an Exception, which the handler covers.)
C32_Original ==
    ExecuteRan =>
        /\ (rhist.f.out.t = "raise" /\ "Exception" \in Mro(rhist.f.out.kind)) =>
              rhist.logged = <<"ERROR">>
        /\ rhist.f.out.t = "ret" => rhist.logged = <<>>

(***************************************************************************)
(* Properties of extract_exception_location.                               *)
(***************************************************************************)
\* C33 as stated: for a chain of L frames and skip_frames s >= 0 the
\* location returned is that of frame s (0-based from the root) when s < L,
\* and the sentinel when the chain is absent or s >= L.
C33_Original ==
    located.done =>
        IF located.chain # <<>> /\ located.skip_frames < Len(located.chain)
        THEN located.out.location = LocationOf(located.chain[located.skip_frames + 1])
        ELSE located.out.location = UnknownLocation

\* C33, amended. The skip stops at the last frame of the chain: for a chain
\* of L >= 1 frames the location returned is that of frame min(s, L-1), so
\* frame s when s < L and the innermost frame when s >= L; the sentinel is
\* returned only for an exception without traceback. The second element is
\* the whole formatted traceback in every case.
C33_SkipStopsAtLastFrame ==
    located.done =>
        /\ located.out.tb_str = located.chain
        /\ IF located.chain = <<>>
           THEN located.out.location = UnknownLocation
           ELSE LET L == Len(located.chain)
                    s == located.skip_frames
                IN  located.out.location =
                        LocationOf(located.chain[(IF s < L THEN s ELSE L - 1) + 1])

\* Reached: a chain of two frames and skip_frames = 4: the location is the
\* innermost frame's, not the sentinel.
C33_Witness ==
    /\ located.done /\ Len(located.chain) = 2 /\ located.skip_frames = 4
    /\ located.chain[1].funcname = "outer" /\ located.chain[2].funcname = "raiser"
    /\ located.out.location.funcname = "raiser"
    /\ located.out.location.lineno = 7

(***************************************************************************)
(* Properties of the wrappers' logging.                                    *)
(***************************************************************************)
\* C34 as stated: a wrapper built with err_level = L (Decorate.catch,
\* Decorate(obj)) logs every fault it catches at level L, with "exception"
\* or an unset level mapped to error.
C34_Original ==
    deco.kind \in {"catch", "obj"} =>
        \A i \in 1 .. Len(logs) : logs[i] = print_log(deco.err_level)

(***************************************************************************)
(* Properties of the metadata dict of a Response.                          *)
(***************************************************************************)
\* The contents of the caller's dict and of the metadata of Response r.
CallerMap == IF callermap = 0 THEN EmptyMeta ELSE dicts[callermap].map
MetadataOf(r) == IF owned[r] = 0 THEN EmptyMeta ELSE dicts[owned[r]].map

\* A metadata write or a clear() on Response object r.
Mutates(r) == (\E k \in MetaKeys : MetadataPut(r, k)) \/ MetadataClear(r)

\* C38 as stated: the metadata dict of a Response is its own, so that a
\* metadata write or a clear() on a Response built with a dict the caller
\* supplied, empty or not, changes neither the caller's dict nor the
\* metadata of another Response.
C38_Original ==
    [][\A r \in Outcomes :
          Mutates(r) =>
              /\ CallerMap' = CallerMap
              /\ \A q \in Outcomes \ {r} : MetadataOf(q)' = MetadataOf(q)]_vars

====
